---- MODULE Spec2Model ----
(***************************************************************************)
(* Verification model of the reseller bookkeeping tool:                    *)
(*   - calculateDeviceFinancials (src/src/components/file-upload.tsx)      *)
(*   - PdfWriter and generateEigenbeleg (src/src/lib/pdf/eigenbeleg.ts)    *)
(*   - createDevice, updateDevice and uploadDeviceFile                     *)
(*     (src/src/app/(protected)/devices/[id]/page.tsx)                     *)
(*   - the generate-receipt route (src/unnamed/part_002)                   *)
(*   - the tables and row level security policies (src/supabase/setup.sql) *)
(*                                                                         *)
(* JavaScript values are modelled as tagged records.  A JavaScript number  *)
(* is kept as an exact rational with denominator Scale (119), so that the  *)
(* VAT factor 19/119 applied to a whole amount is represented exactly;     *)
(* floating-point rounding of the IEEE doubles is not modelled.            *)
(* Lengths on the page are kept in tenths of a millimetre (Unit = 10) so   *)
(* that the line heights 0.4 * fontSize are whole numbers.                 *)
(***************************************************************************)
EXTENDS Integers, Sequences, FiniteSets, TLC

VARIABLES
    device,     \* the record handed to calculateDeviceFinancials
    result,     \* the CalculationResult it returned
    calcPc,     \* "ready" before the call, "done" after it
    w,          \* the PdfWriter with the pages of its jsPDF document
    lastOp,     \* the writer method that acted last
    steps,      \* number of writer methods called so far
    profile,    \* the company profile given to generateEigenbeleg
    docPc,      \* position inside generateEigenbeleg
    lastArg,    \* the argument of the writer method that acted last
    logo,       \* what became of the logo in generateEigenbeleg
    devices,    \* table devices: the row of each id, or NoRow
    companyProfiles, \* table company_profiles
    deviceFiles, \* table device_files: a set of rows
    storage,    \* bucket device-files: the object stored at each path
    calls,      \* the requests and server actions in flight
    lastCall,   \* the request or server action that returned last
    now,        \* the clock
    started,    \* number of requests and server actions started so far
    faults      \* number of failures of the database and the storage so far

calcVars == <<device, result, calcPc>>

pdfVars == <<w, lastOp, steps, profile, docPc, lastArg, logo>>

appVars ==
    <<devices, companyProfiles, deviceFiles, storage, calls, lastCall, now, started, faults>>

vars ==
    <<device, result, calcPc, w, lastOp, steps, profile, docPc, lastArg, logo,
      devices, companyProfiles, deviceFiles, storage, calls, lastCall, now, started,
      faults>>

(***************************************************************************)
(* Bounds of the model.                                                    *)
(***************************************************************************)
MaxAmount == 2
MaxOdd == 2
MaxLines == 3
MaxSteps == 2
NearBottom == 200
Overshoot == 60
LongValue == 62
MaxFormFields == 1
MaxDeviceCalls == 2
MaxCalls == 2
MaxInFlight == 2
MaxNow == 2
MaxFaults == 1
TicksPerDay == 2

(***************************************************************************)
(* JavaScript values.                                                      *)
(***************************************************************************)
Scale == 119

JsVal(t, q, s) == [t |-> t, q |-> q, s |-> s]

UNDEF == JsVal("undefined", 0, <<>>)

NULL == JsVal("null", 0, <<>>)

NAN == JsVal("nan", 0, <<>>)

JSTRUE == JsVal("bool", 1, <<>>)

JSFALSE == JsVal("bool", 0, <<>>)

\* the number q / Scale
Num(q) == JsVal("num", q, <<>>)

\* the whole number n
Whole(n) == Num(n * Scale)

\* the string whose characters are the elements of s
Str(s) == JsVal("str", 0, s)

Digits == <<"0", "1", "2", "3", "4", "5", "6", "7", "8", "9">>

DigitChars == {Digits[i] : i \in 1..10}

DigitValue(c) == (CHOOSE i \in 1..10 : Digits[i] = c) - 1

\* ToBoolean: undefined, null, NaN, 0, "" and false are falsy
Truthy(v) ==
    CASE v.t = "undefined" -> FALSE
      [] v.t = "null" -> FALSE
      [] v.t = "nan" -> FALSE
      [] v.t = "num" -> v.q # 0
      [] v.t = "bool" -> v.q = 1
      [] v.t = "str" -> Len(v.s) > 0

\* a || b
JsOr(a, b) == IF Truthy(a) THEN a ELSE b

\* a ?? b
JsNullish(a, b) == IF a.t \in {"undefined", "null"} THEN b ELSE a

RECURSIVE NatToStr(_)
NatToStr(n) ==
    IF n < 10 THEN <<Digits[n + 1]>>
    ELSE NatToStr(n \div 10) \o <<Digits[(n % 10) + 1]>>

RECURSIVE DigitsToNat(_)
DigitsToNat(s) ==
    IF s = <<>> THEN 0
    ELSE 10 * DigitsToNat(SubSeq(s, 1, Len(s) - 1)) + DigitValue(s[Len(s)])

AllDigits(s) == Len(s) > 0 /\ \A i \in 1..Len(s) : s[i] \in DigitChars

\* ToNumber applied to a string: "" is 0, a decimal integer literal is its
\* value, anything else is NaN
StrToNumber(s) ==
    IF s = <<>> THEN Whole(0)
    ELSE IF AllDigits(s) THEN Whole(DigitsToNat(s))
    ELSE IF s[1] = "-" /\ AllDigits(Tail(s)) THEN Whole(0 - DigitsToNat(Tail(s)))
    ELSE NAN

\* ToNumber
ToNumber(v) ==
    CASE v.t = "undefined" -> NAN
      [] v.t = "null" -> Whole(0)
      [] v.t = "nan" -> NAN
      [] v.t = "num" -> v
      [] v.t = "bool" -> Whole(v.q)
      [] v.t = "str" -> StrToNumber(v.s)

\* ToString (numbers: whole numbers only, the only ones the code concatenates)
ToStr(v) ==
    CASE v.t = "undefined" -> <<"u", "n", "d", "e", "f", "i", "n", "e", "d">>
      [] v.t = "null" -> <<"n", "u", "l", "l">>
      [] v.t = "nan" -> <<"N", "a", "N">>
      [] v.t = "bool" -> IF v.q = 1 THEN <<"t", "r", "u", "e">>
                         ELSE <<"f", "a", "l", "s", "e">>
      [] v.t = "str" -> v.s
      [] v.t = "num" /\ v.q % Scale = 0 ->
            IF v.q < 0 THEN <<"-">> \o NatToStr((0 - v.q) \div Scale)
            ELSE NatToStr(v.q \div Scale)

\* a + b: string concatenation when either operand is a string
JsAdd(a, b) ==
    IF a.t = "str" \/ b.t = "str" THEN Str(ToStr(a) \o ToStr(b))
    ELSE LET x == ToNumber(a)
             y == ToNumber(b)
         IN  IF x.t = "nan" \/ y.t = "nan" THEN NAN ELSE Num(x.q + y.q)

\* a - b
JsSub(a, b) ==
    LET x == ToNumber(a)
        y == ToNumber(b)
    IN  IF x.t = "nan" \/ y.t = "nan" THEN NAN ELSE Num(x.q - y.q)

\* a > 0
JsGtZero(a) ==
    LET x == ToNumber(a)
    IN  x.t = "num" /\ x.q > 0

\* a * (19 / 119); exact for every whole a (a.q is then a multiple of Scale)
JsTimesVatRate(a) ==
    LET x == ToNumber(a)
    IN  IF x.t = "nan" THEN NAN ELSE Num((x.q * 19) \div 119)

(***************************************************************************)
(* calculateDeviceFinancials                                               *)
(***************************************************************************)
CalculationResult(totalCosts, taxableMargin, actualProfit, grossProfit, vat, netProfit, isFinal) ==
    [totalCosts |-> totalCosts, taxableMargin |-> taxableMargin,
     actualProfit |-> actualProfit, grossProfit |-> grossProfit,
     vat |-> vat, netProfit |-> netProfit, isFinal |-> isFinal]

NoResult == CalculationResult(UNDEF, UNDEF, UNDEF, UNDEF, UNDEF, UNDEF, FALSE)

\* device.<camel> || device.<snake> || 0
ReadMoney(d, camel, snake) == JsOr(JsOr(d[camel], d[snake]), Whole(0))

ReadDiffTax_DefaultStandard(d) == JsNullish(JsNullish(d.isDiffTax, d.is_diff_tax), JSFALSE)

\* device.isDiffTax ?? device.is_diff_tax ?? true
ReadDiffTax(d) == JsNullish(JsNullish(d.isDiffTax, d.is_diff_tax), JSTRUE)

TotalCosts_NoSalesFees(purchasePrice, repairCost, shippingBuy, shippingSell, salesFees) ==
    JsAdd(JsAdd(JsAdd(purchasePrice, repairCost), shippingBuy), shippingSell)

\* purchasePrice + repairCost + shippingBuy + shippingSell + salesFees
TotalCosts(purchasePrice, repairCost, shippingBuy, shippingSell, salesFees) ==
    JsAdd(JsAdd(JsAdd(JsAdd(purchasePrice, repairCost), shippingBuy), shippingSell), salesFees)

NetProfit_VatNotDeducted(actualProfit, vat) == actualProfit

\* actualProfit - vat
NetProfit(actualProfit, vat) == JsSub(actualProfit, vat)

ComputeVat_NoMarginGuard(isSold, isDiffTax, taxableMargin, salePrice) ==
    IF isSold
    THEN IF Truthy(isDiffTax) THEN JsTimesVatRate(taxableMargin)
         ELSE JsTimesVatRate(salePrice)
    ELSE Whole(0)

ComputeVat_StandardOnMargin(isSold, isDiffTax, taxableMargin, salePrice) ==
    IF isSold
    THEN IF JsGtZero(taxableMargin) THEN JsTimesVatRate(taxableMargin) ELSE Whole(0)
    ELSE Whole(0)

ComputeVat_IgnoresStatus(isSold, isDiffTax, taxableMargin, salePrice) ==
    IF Truthy(isDiffTax)
    THEN IF JsGtZero(taxableMargin) THEN JsTimesVatRate(taxableMargin) ELSE Whole(0)
    ELSE JsTimesVatRate(salePrice)

\* let vat = 0; if (isSold) { if (isDiffTax) { if (taxableMargin > 0) ... } else ... }
ComputeVat(isSold, isDiffTax, taxableMargin, salePrice) ==
    IF isSold
    THEN IF Truthy(isDiffTax)
         THEN IF JsGtZero(taxableMargin) THEN JsTimesVatRate(taxableMargin) ELSE Whole(0)
         ELSE JsTimesVatRate(salePrice)
    ELSE Whole(0)

calculateDeviceFinancials(d) ==
    LET isSold == d.status = "SOLD"
        purchasePrice == ReadMoney(d, "purchasePrice", "purchase_price")
        repairCost == ReadMoney(d, "repairCost", "repair_cost")
        shippingBuy == ReadMoney(d, "shippingBuy", "shipping_buy")
        shippingSell == ReadMoney(d, "shippingSell", "shipping_sell")
        salesFees == ReadMoney(d, "salesFees", "sales_fees")
        salePrice == ReadMoney(d, "salePrice", "sale_price")
        isDiffTax == ReadDiffTax(d)
        totalCosts == TotalCosts(purchasePrice, repairCost, shippingBuy, shippingSell, salesFees)
        taxableMargin == JsSub(salePrice, purchasePrice)
        actualProfit == JsSub(salePrice, totalCosts)
        grossProfit == actualProfit
        vat == ComputeVat(isSold, isDiffTax, taxableMargin, salePrice)
        netProfit == NetProfit(actualProfit, vat)
    IN  CalculationResult(totalCosts, taxableMargin, actualProfit, grossProfit, vat, netProfit, isSold)

(***************************************************************************)
(* Device records handed to the calculator.                                *)
(***************************************************************************)
CamelFields == {"purchasePrice", "repairCost", "shippingBuy", "shippingSell", "salesFees", "salePrice"}

SnakeFields == {"purchase_price", "repair_cost", "shipping_buy", "shipping_sell", "sales_fees", "sale_price"}

MoneyFields == CamelFields \cup SnakeFields

DeviceFields == MoneyFields \cup {"status", "isDiffTax", "is_diff_tax"}

Statuses == {"SOLD", "STOCK", "REPAIR"}

FlagValues == {UNDEF, NULL, JSTRUE, JSFALSE}

Amounts == {Whole(n) : n \in 0..MaxAmount}

\* values a loosely typed record may carry in a monetary field
OddValues ==
    {Whole(0), Whole(5), NULL, NAN, Str(<<"a", "b", "c">>), Str(<<"1", "2">>), Str(<<>>)}

\* a record with the given status and flags whose monetary fields are
\* money[f] where given and absent (undefined) elsewhere
MakeDevice(status, camelFlag, snakeFlag, present, money) ==
    [f \in DeviceFields |->
        IF f = "status" THEN status
        ELSE IF f = "isDiffTax" THEN camelFlag
        ELSE IF f = "is_diff_tax" THEN snakeFlag
        ELSE IF f \in present THEN money[f]
        ELSE UNDEF]

\* every status and flag combination, purchase and sale price only
IsFlagDevice(d) ==
    \E s \in Statuses, cf \in FlagValues, sf \in FlagValues :
        \E m \in [{"purchasePrice", "salePrice"} -> Amounts] :
            d = MakeDevice(s, cf, sf, {"purchasePrice", "salePrice"}, m)

\* records as the in-memory (camelCase) form carries them
IsCamelDevice(d) ==
    \E s \in {"SOLD", "STOCK"}, cf \in {UNDEF, JSTRUE, JSFALSE} :
        \E m \in [CamelFields -> Amounts] :
            d = MakeDevice(s, cf, UNDEF, CamelFields, m)

\* records as the database (snake_case) rows carry them
IsSnakeDevice(d) ==
    \E s \in {"SOLD", "STOCK"}, sf \in {UNDEF, JSTRUE, JSFALSE} :
        \E m \in [SnakeFields -> Amounts] :
            d = MakeDevice(s, UNDEF, sf, SnakeFields, m)

\* loosely typed records: at most MaxOdd monetary fields present, in either
\* naming, each holding any of OddValues
IsOddDevice(d) ==
    \E s \in {"SOLD", "STOCK"}, cf \in {UNDEF, JSTRUE, JSFALSE} :
        \E P \in {Q \in SUBSET MoneyFields : Cardinality(Q) <= MaxOdd} :
            \E m \in [P -> OddValues] :
                d = MakeDevice(s, cf, UNDEF, P, m)

(***************************************************************************)
(* PdfWriter.  Lengths are in tenths of a millimetre.                      *)
(***************************************************************************)
Unit == 10

PAGE_BOTTOM == 270 * Unit

LINE_HEIGHT == 5 * Unit

TOP == 25 * Unit

\* fontSize * 0.4
LineHeightOf(fontSize) == fontSize * 4

Min(a, b) == IF a < b THEN a ELSE b

NoPos == <<0, 0>>

\* constructor(doc) on a new jsPDF document (one page); footerText = ''.
\* footers[p] counts the footer texts drawn on page p; labelAt and firstAt
\* are the page and height of the label and of the first value line drawn
\* by the current labelValue / labelBlock call; breaks counts the pages
\* added by ensureSpace; outside tells whether anything was drawn with the
\* cursor above TOP or below PAGE_BOTTOM; checked tells whether the current
\* call has called ensureSpace, and unchecked whether a method of the writer
\* drew at the cursor before it had.
NewWriter ==
    [y |-> TOP, pages |-> 1, footerText |-> Str(<<>>), footers |-> <<0>>,
     labelAt |-> NoPos, firstAt |-> NoPos, breaks |-> 0, outside |-> FALSE,
     checked |-> FALSE, unchecked |-> FALSE]

\* setFooter(text)
setFooter(wr, text) == [wr EXCEPT !.footerText = text]

\* addFooter(): draws footerText at FOOTER_Y on the current page
addFooter(wr) ==
    IF ~Truthy(wr.footerText) THEN wr
    ELSE [wr EXCEPT !.footers[wr.pages] = @ + 1]

ensureSpace_AtBoundary(wr, needed) ==
    IF wr.y + needed >= PAGE_BOTTOM
    THEN [addFooter(wr) EXCEPT !.pages = @ + 1, !.footers = Append(@, 0), !.y = TOP,
                               !.breaks = @ + 1, !.checked = TRUE]
    ELSE [wr EXCEPT !.checked = TRUE]

ensureSpace_NoFooter(wr, needed) ==
    IF wr.y + needed > PAGE_BOTTOM
    THEN [wr EXCEPT !.pages = @ + 1, !.footers = Append(@, 0), !.y = TOP,
                    !.breaks = @ + 1, !.checked = TRUE]
    ELSE [wr EXCEPT !.checked = TRUE]

\* ensureSpace(needed)
ensureSpace(wr, needed) ==
    IF wr.y + needed > PAGE_BOTTOM
    THEN [addFooter(wr) EXCEPT !.pages = @ + 1, !.footers = Append(@, 0), !.y = TOP,
                               !.breaks = @ + 1, !.checked = TRUE]
    ELSE [wr EXCEPT !.checked = TRUE]

\* advance(amount)
advance(wr, amount) == [wr EXCEPT !.y = @ + amount]

\* doc.text(..., this.y) and doc.line(..., this.y, ..., this.y): something
\* is drawn at the height of the cursor
drawAtCursor(wr) ==
    [wr EXCEPT !.outside = @ \/ wr.y < TOP \/ wr.y > PAGE_BOTTOM]

\* this.doc.text / this.doc.line inside a method of the writer
writerDraw(wr) == [drawAtCursor(wr) EXCEPT !.unchecked = @ \/ ~wr.checked]

\* doc.text(label, LABEL_X, this.y)
drawLabel(wr) == [writerDraw(wr) EXCEPT !.labelAt = <<wr.pages, wr.y>>]

\* doc.text(lines[i], VALUE_X, this.y)
drawValueLine(wr, i) ==
    IF i = 0 THEN [writerDraw(wr) EXCEPT !.firstAt = <<wr.pages, wr.y>>]
    ELSE writerDraw(wr)

separator_OwnPageBreak(wr) ==
    LET a == IF wr.y + 10 * Unit > PAGE_BOTTOM
             THEN [addFooter(wr) EXCEPT !.pages = @ + 1, !.footers = Append(@, 0),
                                        !.y = TOP]
             ELSE wr
    IN  advance(writerDraw(a), 10 * Unit)

\* separator()
separator(wr) == advance(writerDraw(ensureSpace(wr, 10 * Unit)), 10 * Unit)

\* the loop over the wrapped lines in labelValue (c.pages > 0 always holds;
\* testing it makes TLC evaluate c before the next iteration)
RECURSIVE labelValueLines(_, _, _, _)
labelValueLines(wr, i, n, lineH) ==
    IF i >= n THEN wr
    ELSE LET a == IF i > 0 THEN ensureSpace(wr, lineH) ELSE wr
             b == drawValueLine(a, i)
             c == IF i < n - 1 THEN advance(b, lineH) ELSE b
         IN  IF c.pages > 0 THEN labelValueLines(c, i + 1, n, lineH) ELSE c

labelValue_ReserveOnce(wr, nLines, fontSize) ==
    LET lineH == LineHeightOf(fontSize)
        totalHeight == nLines * lineH
        a == ensureSpace(wr, Min(totalHeight, lineH + 2 * Unit))
        b == drawValueLine(drawLabel(a), 0)
        c == IF nLines > 1 THEN drawValueLine(advance(b, (nLines - 1) * lineH), 1) ELSE b
    IN  advance(c, lineH + 2 * Unit)

\* labelValue(label, value, opts): nLines is the number of lines
\* splitTextToSize returns for value, fontSize is opts.valueFontSize || 10
labelValue(wr, nLines, fontSize) ==
    LET lineH == LineHeightOf(fontSize)
        totalHeight == nLines * lineH
        a == ensureSpace(wr, Min(totalHeight, lineH + 2 * Unit))
        b == drawLabel(a)
        c == labelValueLines(b, 0, nLines, lineH)
    IN  advance(c, lineH + 2 * Unit)

\* the loop over values in labelBlock (c.pages > 0 as above)
RECURSIVE labelBlockLines(_, _, _, _)
labelBlockLines(wr, i, n, lineH) ==
    IF i >= n THEN wr
    ELSE LET a == ensureSpace(wr, lineH)
             b == drawValueLine(a, i)
             c == advance(b, lineH)
         IN  IF c.pages > 0 THEN labelBlockLines(c, i + 1, n, lineH) ELSE c

labelBlock_ReserveTooLittle(wr, n) ==
    LET lineH == LINE_HEIGHT
        a == ensureSpace(wr, 2 * Unit)
        b == drawLabel(a)
        c == labelBlockLines(b, 0, n, lineH)
    IN  advance(c, 3 * Unit)

\* labelBlock(label, values): n is values.length
labelBlock(wr, n) ==
    LET lineH == LINE_HEIGHT
        a == ensureSpace(wr, lineH + 2 * Unit)
        b == drawLabel(a)
        c == labelBlockLines(b, 0, n, lineH)
    IN  advance(c, 3 * Unit)

\* the observations of one call start empty
Fresh(wr) == [wr EXCEPT !.labelAt = NoPos, !.firstAt = NoPos, !.checked = FALSE]

(***************************************************************************)
(* Company profiles.                                                       *)
(***************************************************************************)
CompanyProfile(email, phone, tax_id, vat_id, logo_url) ==
    [email |-> email, phone |-> phone, tax_id |-> tax_id, vat_id |-> vat_id,
     logo_url |-> logo_url]

NoProfile == CompanyProfile(NULL, NULL, NULL, NULL, NULL)

SomeText == Str(<<"x">>)

\* email is NOT NULL but may be empty; the optional columns are null or text
Profiles ==
    {CompanyProfile(e, ph, t, v, l) :
        e \in {Str(<<>>), SomeText}, ph \in {NULL, SomeText},
        t \in {NULL, SomeText}, v \in {NULL, SomeText}, l \in {NULL, SomeText}}

\* Array.prototype.join renders null and undefined as the empty string
JoinPart(v) == IF v.t \in {"undefined", "null"} THEN <<>> ELSE ToStr(v)

\* footerParts = [email]; if (phone) footerParts.push(phone); join
FooterParts(p) ==
    IF Truthy(p.phone)
    THEN Str(JoinPart(p.email) \o <<" ", "*", " ">> \o JoinPart(p.phone))
    ELSE Str(JoinPart(p.email))

(***************************************************************************)
(* The database, the storage bucket and the clock, before anything is      *)
(* stored.                                                                 *)
(***************************************************************************)
DeviceIds == {"d1", "d2"}

NoRow == [owner_user_id |-> "nobody"]

NoCall == [op |-> "none"]

\* a row of company_profiles (the columns the model follows)
ProfileRow(user, company_name, owner_name, vat_id) ==
    [user_id |-> user, company_name |-> company_name, owner_name |-> owner_name,
     vat_id |-> vat_id]

\* the users that have a row in company_profiles
Profiled == {p.user_id : p \in companyProfiles}

AppIdle ==
    /\ devices = [d \in DeviceIds |-> NoRow]
    /\ companyProfiles = {}
    /\ deviceFiles = {}
    /\ storage = {}
    /\ calls = <<>>
    /\ lastCall = NoCall
    /\ now = 0
    /\ started = 0
    /\ faults = 0

(***************************************************************************)
(* Specification of the writer: any method, called on a writer whose       *)
(* cursor stands anywhere on the page.                                     *)
(***************************************************************************)
CursorStarts ==
    {TOP} \cup ((PAGE_BOTTOM - NearBottom)..(PAGE_BOTTOM + Overshoot))

FontSizes == {9, 10, 14}

AdvanceAmounts == {3 * Unit, 5 * Unit, 8 * Unit, 18 * Unit}

SpaceAmounts == {5 * Unit, 20 * Unit}

InitWriter ==
    /\ device = MakeDevice("STOCK", UNDEF, UNDEF, {}, <<>>)
    /\ result = NoResult
    /\ calcPc = "idle"
    /\ \E c \in CursorStarts, t \in {Str(<<>>), SomeText} :
          w = advance(setFooter(NewWriter, t), c - TOP)
    /\ lastOp = "constructor"
    /\ steps = 0
    /\ profile = NoProfile
    /\ docPc = "idle"
    /\ lastArg = 0
    /\ logo = "none"
    /\ AppIdle

WriterCallArg(name, arg, wr) ==
    /\ steps < MaxSteps
    /\ w' = wr
    /\ lastOp' = name
    /\ lastArg' = arg
    /\ steps' = steps + 1
    /\ UNCHANGED <<calcVars, profile, docPc, logo, appVars>>

WriterCall(name, wr) == WriterCallArg(name, 0, wr)

SetFooter == \E t \in {Str(<<>>), SomeText} : WriterCall("setFooter", setFooter(Fresh(w), t))

AddFooter == WriterCall("addFooter", addFooter(Fresh(w)))

EnsureSpace ==
    \E n \in SpaceAmounts : WriterCallArg("ensureSpace", n, ensureSpace(Fresh(w), n))

Advance == \E a \in AdvanceAmounts : WriterCallArg("advance", a, advance(Fresh(w), a))

Separator == WriterCall("separator", separator(Fresh(w)))

LabelValue ==
    \E n \in 1..MaxLines, fs \in FontSizes :
        WriterCall("labelValue", labelValue(Fresh(w), n, fs))

LabelBlock == \E n \in 0..MaxLines : WriterCall("labelBlock", labelBlock(Fresh(w), n))

NextWriter ==
    \/ SetFooter
    \/ AddFooter
    \/ EnsureSpace
    \/ Advance
    \/ Separator
    \/ LabelValue
    \/ LabelBlock

SpecWriter == InitWriter /\ [][NextWriter]_vars

(***************************************************************************)
(* generateEigenbeleg: one action per block of the assembly sequence.      *)
(* The number of lines a free-text value wraps to (splitTextToSize) is     *)
(* chosen from DocLineCounts; the date, the amount and the GUID fit on one *)
(* line.                                                                   *)
(***************************************************************************)
DocLineCounts == {1, 2, MaxLines, LongValue}

InitDoc ==
    /\ device = MakeDevice("STOCK", UNDEF, UNDEF, {}, <<>>)
    /\ result = NoResult
    /\ calcPc = "idle"
    /\ w = NewWriter
    /\ lastOp = "constructor"
    /\ steps = 0
    /\ profile \in Profiles
    /\ docPc = "setFooter"
    /\ lastArg = 0
    /\ logo = "none"
    /\ AppIdle

DocStepLogo(from, to, name, wr, lg) ==
    /\ docPc = from
    /\ docPc' = to
    /\ w' = wr
    /\ lastOp' = name
    /\ logo' = lg
    /\ UNCHANGED <<calcVars, steps, profile, lastArg, appVars>>

DocStep(from, to, name, wr) == DocStepLogo(from, to, name, wr, logo)

\* loadLogoAsBase64(logoUrl): null when fetch throws or the response is not
\* OK, the data URL otherwise
loadLogoAsBase64(fetched) == IF fetched = "ok" THEN SomeText ELSE NULL

\* the outcome of lines 205-215 for a fetch result and an addImage result
logoOutcome(p, fetched, added) ==
    IF ~Truthy(p.logo_url) THEN "noLogo"
    ELSE IF ~Truthy(loadLogoAsBase64(fetched)) THEN "fetchFailed"
    ELSE IF added = "throws" THEN "addImageFailed"
    ELSE "added"

afterLogo_Uncaught(outcome) == IF outcome = "addImageFailed" THEN "failed" ELSE "title"

\* where generateEigenbeleg continues after the logo block: the catch
\* clauses swallow every failure
afterLogo(outcome) == "title"

\* w.setFooter(footerParts.join(...))
GenSetFooter == DocStep("setFooter", "logo", "setFooter", setFooter(w, FooterParts(profile)))

\* the logo is fetched and added when logo_url is set; fetch and addImage may
\* fail, and neither outcome touches the writer
GenLogo ==
    \E fetched \in {"ok", "notOk", "throws"}, added \in {"ok", "throws"} :
        LET outcome == logoOutcome(profile, fetched, added)
        IN  DocStepLogo("logo", afterLogo(outcome), outcome, w, outcome)

\* title and subtitle
GenTitle ==
    DocStep("title", "belegdatum", "title",
            advance(drawAtCursor(advance(drawAtCursor(w), 8 * Unit)), 18 * Unit))

GenBelegdatum == DocStep("belegdatum", "gegenpartei", "labelValue", labelValue(Fresh(w), 1, 10))

GenGegenpartei ==
    \E n \in DocLineCounts :
        DocStep("gegenpartei", "beschreibung", "labelValue", labelValue(Fresh(w), n, 10))

GenBeschreibung ==
    \E n \in DocLineCounts :
        DocStep("beschreibung", "geraeteId", "labelValue", labelValue(Fresh(w), n, 10))

GenGeraeteId ==
    DocStep("geraeteId", "betrag", "geraeteId",
            advance(drawAtCursor(ensureSpace(Fresh(w), 5 * Unit)), 8 * Unit))

GenBetrag == DocStep("betrag", "separator1", "labelValue", labelValue(Fresh(w), 1, 14))

GenSeparator1 == DocStep("separator1", "grund", "separator", separator(Fresh(w)))

GenGrund ==
    \E n \in DocLineCounts :
        DocStep("grund", "separator2", "labelValue", labelValue(Fresh(w), n, 10))

GenSeparator2 == DocStep("separator2", "erstelltDurch", "separator", separator(Fresh(w)))

GenErstelltDurch == DocStep("erstelltDurch", "erstelltAm", "labelBlock", labelBlock(Fresh(w), 4))

GenErstelltAm == DocStep("erstelltAm", "steuerNr", "labelValue", labelValue(Fresh(w), 1, 10))

GenSteuerNr ==
    \E n \in DocLineCounts :
        IF Truthy(profile.tax_id)
        THEN DocStep("steuerNr", "ustId", "labelValue", labelValue(Fresh(w), n, 10))
        ELSE DocStep("steuerNr", "ustId", "skip", Fresh(w))

GenUstId ==
    \E n \in DocLineCounts :
        IF Truthy(profile.vat_id)
        THEN DocStep("ustId", "guid", "labelValue", labelValue(Fresh(w), n, 10))
        ELSE DocStep("ustId", "guid", "skip", Fresh(w))

GenGuid ==
    DocStep("guid", "unterschrift", "labelValue", advance(labelValue(Fresh(w), 1, 9), 8 * Unit))

GenUnterschrift ==
    DocStep("unterschrift", "footer", "unterschrift",
            drawAtCursor(advance(drawAtCursor(ensureSpace(Fresh(w), 20 * Unit)), 5 * Unit)))

\* footer on the last page, then doc.output
GenFooter == DocStep("footer", "done", "addFooter", addFooter(Fresh(w)))

NextDoc ==
    \/ GenSetFooter
    \/ GenLogo
    \/ GenTitle
    \/ GenBelegdatum
    \/ GenGegenpartei
    \/ GenBeschreibung
    \/ GenGeraeteId
    \/ GenBetrag
    \/ GenSeparator1
    \/ GenGrund
    \/ GenSeparator2
    \/ GenErstelltDurch
    \/ GenErstelltAm
    \/ GenSteuerNr
    \/ GenUstId
    \/ GenGuid
    \/ GenUnterschrift
    \/ GenFooter

SpecDoc == InitDoc /\ [][NextDoc]_vars

(***************************************************************************)
(* Specification of the calculator: a caller holds a device record and     *)
(* calls calculateDeviceFinancials on it.                                  *)
(***************************************************************************)
InitCalc ==
    /\ \/ IsFlagDevice(device)
       \/ IsCamelDevice(device)
       \/ IsSnakeDevice(device)
       \/ IsOddDevice(device)
    /\ result = NoResult
    /\ calcPc = "ready"
    /\ w = NewWriter
    /\ lastOp = "constructor"
    /\ steps = 0
    /\ profile = NoProfile
    /\ docPc = "idle"
    /\ lastArg = 0
    /\ logo = "none"
    /\ AppIdle

Calculate ==
    /\ calcPc = "ready"
    /\ result' = calculateDeviceFinancials(device)
    /\ calcPc' = "done"
    /\ UNCHANGED <<device, pdfVars, appVars>>

NextCalc == Calculate

SpecCalc == InitCalc /\ [][NextCalc]_vars

(***************************************************************************)
(* Device management: createDevice and updateDevice on the table devices.  *)
(***************************************************************************)
Users == {"u1", "u2"}

\* supabase.auth.getUser() yields no user
NoUser == "anonymous"

RECURSIVE SkipSpaces(_)
SkipSpaces(s) == IF s # <<>> /\ Head(s) = " " THEN SkipSpaces(Tail(s)) ELSE s

RECURSIVE DigitPrefix(_)
DigitPrefix(s) ==
    IF s # <<>> /\ Head(s) \in DigitChars THEN <<Head(s)>> \o DigitPrefix(Tail(s))
    ELSE <<>>

\* parseFloat: leading white space, a sign, the longest run of digits (the
\* form values of the model have no fraction and no exponent)
parseFloat(s) ==
    LET t == SkipSpaces(s)
        u == IF t # <<>> /\ Head(t) \in {"-", "+"} THEN Tail(t) ELSE t
        ds == DigitPrefix(u)
    IN  IF ds = <<>> THEN NAN
        ELSE IF Head(t) = "-" THEN Whole(0 - DigitsToNat(ds))
        ELSE Whole(DigitsToNat(ds))

\* parseNumber(val)
parseNumber(val) ==
    IF val = NULL \/ val = UNDEF \/ val = Str(<<>>) THEN Whole(0)
    ELSE LET num == IF val.t = "str" THEN parseFloat(val.s) ELSE ToNumber(val)
         IN  IF num.t = "nan" THEN Whole(0) ELSE num

\* the year and month that dates of the model fall in
YearMonths == {"2026-01", "2026-02"}

\* a date string new Date() can parse: year and month, then the day
DateText(ym) == Str(<<ym, "-15">>)

\* Date.prototype.toISOString
toISOString(ym) == Str(<<ym, "-15", "T00:00:00.000Z">>)

\* parseDate(val)
parseDate(val) ==
    IF ~Truthy(val) \/ val = Str(<<>>) THEN NULL
    ELSE IF val.t = "str" /\ Len(val.s) = 2 /\ val.s[1] \in YearMonths /\ val.s[2] = "-15"
         THEN toISOString(val.s[1])
    ELSE NULL

\* new Date().toISOString()
CurrentDate == toISOString("2026-02")

\* a row of devices (the columns the model follows)
DeviceRow(owner, status, bought, price, shipBuy, repair, shipSell, salePrice, fees, sold) ==
    [owner_user_id |-> owner, status |-> status, purchase_date |-> bought,
     purchase_price |-> price, shipping_buy |-> shipBuy, repair_cost |-> repair,
     shipping_sell |-> shipSell, sale_price |-> salePrice, sales_fees |-> fees,
     sale_date |-> sold]

MoneyColumns ==
    {"purchase_price", "shipping_buy", "repair_cost", "shipping_sell", "sale_price",
     "sales_fees"}

\* the row of id exists
HasRow(id) == devices[id].owner_user_id # NoRow.owner_user_id

\* a row that every caller sees
VisibleDevice_AnyOwner(user, id) == HasRow(id)

\* the row of id passes the policies of devices for the caller
\* (auth.uid() = owner_user_id)
VisibleDevice(user, id) == HasRow(id) /\ devices[id].owner_user_id = user

\* NOT NULL and CHECK constraints of devices
DeviceConstraints(row) ==
    /\ row.status \in {Str(<<"STOCK">>), Str(<<"REPAIR">>), Str(<<"SOLD">>)}
    /\ row.purchase_date # NULL
    /\ row.purchase_price # NULL

\* deviceData of createDevice
deviceData(user, form) ==
    DeviceRow(user, form.status,
              JsOr(parseDate(form.purchaseDate), CurrentDate),
              parseNumber(form.purchasePrice),
              parseNumber(form.shippingBuy),
              parseNumber(form.repairCost),
              parseNumber(form.shippingSell),
              IF Truthy(form.salePrice) THEN parseNumber(form.salePrice) ELSE NULL,
              parseNumber(form.salesFees),
              parseDate(form.saleDate))

\* the row that updateDevice asks for: a column changes when its form field
\* is not undefined
updateData(row, form) ==
    [row EXCEPT
        !.status = IF form.status # UNDEF THEN form.status ELSE @,
        !.purchase_date = IF form.purchaseDate # UNDEF THEN parseDate(form.purchaseDate) ELSE @,
        !.sale_date = IF form.saleDate # UNDEF THEN parseDate(form.saleDate) ELSE @,
        !.purchase_price =
            IF form.purchasePrice # UNDEF THEN parseNumber(form.purchasePrice) ELSE @,
        !.repair_cost = IF form.repairCost # UNDEF THEN parseNumber(form.repairCost) ELSE @,
        !.shipping_buy = IF form.shippingBuy # UNDEF THEN parseNumber(form.shippingBuy) ELSE @,
        !.shipping_sell =
            IF form.shippingSell # UNDEF THEN parseNumber(form.shippingSell) ELSE @,
        !.sale_price =
            IF form.salePrice # UNDEF
            THEN (IF Truthy(form.salePrice) THEN parseNumber(form.salePrice) ELSE NULL)
            ELSE @,
        !.sales_fees = IF form.salesFees # UNDEF THEN parseNumber(form.salesFees) ELSE @]

(***************************************************************************)
(* Form data: the status and at most MaxFormFields other fields are given, *)
(* each with one of the values a form or a script can send for it.         *)
(***************************************************************************)
OtherFields ==
    {"purchaseDate", "saleDate", "purchasePrice", "repairCost", "shippingBuy",
     "shippingSell", "salePrice", "salesFees"}

FormFields == {"status"} \cup OtherFields

StatusInputs == {UNDEF, Str(<<"STOCK">>), Str(<<"SOLD">>), Str(<<"LOST">>)}

DateInputs == {Str(<<>>), Str(<<"s", "o", "o", "n">>)} \cup {DateText(ym) : ym \in YearMonths}

NumberInputs == {Str(<<>>), Str(<<"5">>), Str(<<"-", "5">>), Str(<<"e", "u", "r">>), Whole(0)}

InputsOf(f) == IF f \in {"purchaseDate", "saleDate"} THEN DateInputs ELSE NumberInputs

MakeForm(status, P, m) ==
    [f \in FormFields |-> IF f = "status" THEN status ELSE IF f \in P THEN m[f] ELSE UNDEF]

Forms ==
    UNION {{MakeForm(status, P, m) :
                status \in StatusInputs,
                m \in {n \in [P -> DateInputs \cup NumberInputs] :
                          \A f \in P : n[f] \in InputsOf(f)}} :
           P \in {Q \in SUBSET OtherFields : Cardinality(Q) <= MaxFormFields}}

(***************************************************************************)
(* Specification of device management: any user, or nobody, calls          *)
(* createDevice and updateDevice with any form data.                       *)
(***************************************************************************)
InitDevices ==
    /\ device = MakeDevice("STOCK", UNDEF, UNDEF, {}, <<>>)
    /\ result = NoResult
    /\ calcPc = "idle"
    /\ w = NewWriter
    /\ lastOp = "constructor"
    /\ steps = 0
    /\ profile = NoProfile
    /\ docPc = "idle"
    /\ lastArg = 0
    /\ logo = "none"
    /\ AppIdle

DeviceCall(name, user, id, ok, table) ==
    /\ started' = started + 1
    /\ devices' = table
    /\ lastCall' = [op |-> name, user |-> user, id |-> id, success |-> ok]
    /\ UNCHANGED <<calcVars, pdfVars, companyProfiles, deviceFiles, storage, calls, now,
                   faults>>

\* createDevice(formData), formData of forms
CreateDeviceWith(forms) ==
    /\ started < MaxDeviceCalls
    /\ \E user \in Users \cup {NoUser}, id \in DeviceIds, form \in forms :
          LET row == deviceData(user, form)
          IN  IF user = NoUser \/ VisibleDevice(user, id)
              THEN DeviceCall("createDevice", user, id, FALSE, devices)
              ELSE IF HasRow(id) \/ ~DeviceConstraints(row)
              THEN DeviceCall("createDevice", user, id, FALSE, devices)
              ELSE DeviceCall("createDevice", user, id, TRUE, [devices EXCEPT ![id] = row])

CreateDevice == CreateDeviceWith(Forms)

\* updateDevice(id, formData), formData of forms
UpdateDeviceWith(forms) ==
    /\ started < MaxDeviceCalls
    /\ \E user \in Users \cup {NoUser}, id \in DeviceIds, form \in forms :
          IF user = NoUser \/ ~VisibleDevice(user, id)
          THEN DeviceCall("updateDevice", user, id, FALSE, devices)
          ELSE IF ~DeviceConstraints(updateData(devices[id], form))
          THEN DeviceCall("updateDevice", user, id, FALSE, devices)
          ELSE DeviceCall("updateDevice", user, id, TRUE,
                          [devices EXCEPT ![id] = updateData(devices[id], form)])

UpdateDevice == UpdateDeviceWith(Forms)

NextDevices ==
    \/ CreateDevice
    \/ UpdateDevice

SpecDevices == InitDevices /\ [][NextDevices]_vars

(***************************************************************************)
(* File attachments: the generate-receipt route and uploadDeviceFile on    *)
(* the table device_files and the bucket device-files.                     *)
(***************************************************************************)
RECURSIVE DropTrailingSpaces(_)
DropTrailingSpaces(s) ==
    IF s # <<>> /\ s[Len(s)] = " " THEN DropTrailingSpaces(SubSeq(s, 1, Len(s) - 1))
    ELSE s

\* String.prototype.trim
trim(s) == DropTrailingSpaces(SkipSpaces(s))

\* new Date().toISOString().slice(0, 10): the day the clock shows
Today(t) == t \div TicksPerDay

NoStamp == 0 - 1

\* `${prefix}_${deviceId}_${today}${extension}`, and with a time stamp
\* `${baseFilename}_${timestamp}${extension}`
FileName(prefix, deviceId, day, stamp, extension) ==
    <<prefix, deviceId, day, stamp, extension>>

\* `${user.id}/${yearMonth}/${deviceId}/${fileName}`
FilePath(user, yearMonth, deviceId, fileName) == <<user, yearMonth, deviceId, fileName>>

\* getFullYear and getMonth of new Date(device.purchase_date)
YearMonthOf(row) == row.purchase_date.s[1]

\* a row of device_files; id is the number of the call that inserted it
FileRow(id, deviceId, user, fileName, filePath, size, category) ==
    [id |-> id, device_id |-> deviceId, owner_user_id |-> user, file_name |-> fileName,
     file_path |-> filePath, file_size |-> size, category |-> category]

\* the commands for which device_files has a policy; each policy demands
\* auth.uid() = owner_user_id
FilePolicies == {"SELECT", "INSERT", "DELETE"}

\* row passes row level security for command and caller
FileAllowed(command, user, row) == command \in FilePolicies /\ row.owner_user_id = user

\* .update(values).eq('id', id) through the client of the caller
UpdateFile(table, user, id, fileName, filePath, size) ==
    {IF r.id = id /\ FileAllowed("UPDATE", user, r)
     THEN [r EXCEPT !.file_name = fileName, !.file_path = filePath, !.file_size = size]
     ELSE r : r \in table}

\* .select('id').eq(device_id).eq(owner_user_id).eq('category', 'EIGENBELEG')
ReceiptRows(table, user, deviceId) ==
    {r \in table : /\ FileAllowed("SELECT", user, r)
                   /\ r.device_id = deviceId
                   /\ r.owner_user_id = user
                   /\ r.category = Str(<<"EIGENBELEG">>)}

NoId == 0

\* .maybeSingle(): the row when there is exactly one, null when there is
\* none, and an error with null data when there are several
maybeSingle(rows) == IF Cardinality(rows) = 1 THEN (CHOOSE r \in rows : TRUE).id ELSE NoId

\* an object of the bucket; by is the number of the call that wrote it
StoredObject(path, size, by) == [path |-> path, size |-> size, by |-> by]

HasObject(bucket, path) == \E o \in bucket : o.path = path

\* .upload(path, data, {upsert: true})
Upsert(bucket, path, size, by) ==
    {o \in bucket : o.path # path} \cup {StoredObject(path, size, by)}

Remove_Nothing(bucket, path) == bucket

\* .remove([path])
Remove(bucket, path) == {o \in bucket : o.path # path}

(***************************************************************************)
(* POST generate-receipt.                                                  *)
(***************************************************************************)
\* the body of the request: JSON that is an object, JSON null, or no JSON
Body(kind, recipientName, reason) ==
    [kind |-> kind, recipientName |-> recipientName, reason |-> reason]

\* request.json().catch(() => ({}))
ParsedBody(b) == IF b.kind = "invalid" THEN Body("object", UNDEF, UNDEF) ELSE b

\* reason = body.reason || ''
routeReason(b) == JsOr(b.reason, Str(<<>>))

optionsReason_NoTrim(reason) == JsOr(reason, UNDEF)

\* reason.trim() || undefined
optionsReason(reason) == JsOr(Str(trim(reason.s)), UNDEF)

DefaultReason == Str(<<"Kein", " ", "externer", " ", "Beleg", " ", "vorhanden">>)

\* options.reason || 'Kein externer Beleg vorhanden'
grundValue(reason) == JsOr(reason, DefaultReason)

\* pdfBuffer.length: grows with the texts the document shows
pdfLength(recipientName, grund) == 1000 + Len(recipientName.s) + Len(grund.s)

receiptChecks_NoTrim(user, deviceId, b) ==
    IF user = NoUser THEN 401
    ELSE IF b.kind = "null" THEN 500
    ELSE IF ~Truthy(ParsedBody(b).recipientName) THEN 400
    ELSE IF ParsedBody(b).recipientName.t # "str" THEN 500
    ELSE IF ~VisibleDevice(user, deviceId) THEN 404
    ELSE IF user \notin Profiled THEN 400
    ELSE IF routeReason(ParsedBody(b)).t # "str" THEN 500
    ELSE 0

\* lines 13-61 up to the call of generateEigenbeleg: the status of the
\* response that ends the request, or 0 when generateEigenbeleg is called.
\* Reading a property of null and calling trim on a value that is not a
\* string throw, and the catch clause answers 500.
receiptChecks(user, deviceId, b) ==
    IF user = NoUser THEN 401
    ELSE IF b.kind = "null" THEN 500
    ELSE IF ~Truthy(ParsedBody(b).recipientName) THEN 400
    ELSE IF ParsedBody(b).recipientName.t # "str" THEN 500
    ELSE IF trim(ParsedBody(b).recipientName.s) = <<>> THEN 400
    ELSE IF ~VisibleDevice(user, deviceId) THEN 404
    ELSE IF user \notin Profiled THEN 400
    ELSE IF routeReason(ParsedBody(b)).t # "str" THEN 500
    ELSE 0

\* a request or server action: its arguments, its local variables (fileName,
\* filePath, size, existing, counter), what is shown as 'Grund', what it has
\* done so far (generateEigenbeleg invoked, object uploaded, device_files
\* written) and what it returns
Call(op, seq, user, deviceId, input) ==
    [op |-> op, seq |-> seq, pc |-> "begin", user |-> user, deviceId |-> deviceId,
     input |-> input, category |-> UNDEF, fileName |-> <<>>, filePath |-> <<>>,
     size |-> 0, grund |-> UNDEF, existing |-> NoId, counter |-> 0,
     invoked |-> FALSE, uploaded |-> FALSE, wrote |-> FALSE,
     status |-> 0, success |-> FALSE]

Active == {i \in DOMAIN calls : calls[i].op # NoCall.op}

\* the place a new call takes among the calls in flight
FreeSlot == CHOOSE i \in DOMAIN calls \ Active : \A j \in DOMAIN calls \ Active : i <= j

\* a call begins while fewer than limit calls are in flight
CanStart(limit) == started < MaxCalls /\ Cardinality(Active) < limit

\* NextResponse.json(..., {status}) or the return of a server action
Returned(c, status, success) == [c EXCEPT !.pc = "returned", !.status = status, !.success = success]

\* the request bodies: a name with no reason, or a reason with a good name
Names ==
    {UNDEF, Str(<<>>), Str(<<" ">>), Str(<<"A">>), Str(<<" ", "A", "b">>), Whole(5)}

Reasons ==
    {UNDEF, Str(<<>>), Str(<<" ", " ">>), Str(<<"r">>), Str(<<"r", "s", " ">>), Whole(5)}

Bodies ==
    {Body("object", n, UNDEF) : n \in Names}
    \cup {Body("object", Str(<<"A">>), r) : r \in Reasons}
    \cup {Body("invalid", UNDEF, UNDEF), Body("null", UNDEF, UNDEF)}

\* lines 10-70: up to generateEigenbeleg and the names of the file
ReceiptBegin(limit) ==
    /\ CanStart(limit)
    /\ started' = started + 1
    /\ \E user \in Users \cup {NoUser}, deviceId \in DeviceIds, b \in Bodies :
          LET code == receiptChecks(user, deviceId, b)
              c == Call("generateReceipt", started + 1, user, deviceId, b)
              recipientName == Str(trim(ParsedBody(b).recipientName.s))
              grund == grundValue(optionsReason(routeReason(ParsedBody(b))))
              fileName == FileName("Eigenbeleg", deviceId, Today(now), NoStamp, ".pdf")
              filePath == FilePath(user, YearMonthOf(devices[deviceId]), deviceId, fileName)
          IN  IF code # 0
              THEN /\ lastCall' = Returned(c, code, FALSE)
                   /\ UNCHANGED calls
              ELSE /\ calls' = [calls EXCEPT ![FreeSlot] =
                                   [c EXCEPT !.pc = "upload", !.invoked = TRUE,
                                             !.grund = grund,
                                             !.size = pdfLength(recipientName, grund),
                                             !.fileName = fileName,
                                             !.filePath = filePath]]
                   /\ UNCHANGED lastCall
    /\ UNCHANGED <<calcVars, pdfVars, devices, companyProfiles, deviceFiles, storage, now,
                   faults>>

\* lines 73-85: the upload with upsert, which may fail
ReceiptUpload ==
    \E i \in Active :
        /\ calls[i].op = "generateReceipt"
        /\ calls[i].pc = "upload"
        /\ \/ /\ storage' = Upsert(storage, calls[i].filePath, calls[i].size, calls[i].seq)
              /\ calls' = [calls EXCEPT ![i].pc = "select", ![i].uploaded = TRUE]
              /\ UNCHANGED <<lastCall, faults>>
           \/ /\ faults < MaxFaults
              /\ faults' = faults + 1
              /\ lastCall' = Returned(calls[i], 500, FALSE)
              /\ calls' = [calls EXCEPT ![i] = NoCall]
              /\ UNCHANGED storage
        /\ UNCHANGED <<calcVars, pdfVars, devices, companyProfiles, deviceFiles, now, started>>

\* lines 88-94
ReceiptSelect ==
    \E i \in Active :
        /\ calls[i].op = "generateReceipt"
        /\ calls[i].pc = "select"
        /\ calls' = [calls EXCEPT
                        ![i].pc = "write",
                        ![i].existing =
                            maybeSingle(ReceiptRows(deviceFiles, calls[i].user,
                                                    calls[i].deviceId))]
        /\ UNCHANGED <<calcVars, pdfVars, devices, companyProfiles, deviceFiles, storage,
                       lastCall, now, started, faults>>

\* lines 96-126: the update, whose outcome is not looked at, or the insert,
\* whose error is only logged, and the answer.  The insert fails when the
\* device is gone (foreign key) or the database fails.
ReceiptWrite ==
    \E i \in Active :
        LET c == calls[i]
            row == FileRow(c.seq, c.deviceId, c.user, c.fileName, c.filePath, c.size,
                           Str(<<"EIGENBELEG">>))
        IN  /\ c.op = "generateReceipt"
            /\ c.pc = "write"
            /\ \/ /\ c.existing # NoId
                  /\ deviceFiles' = UpdateFile(deviceFiles, c.user, c.existing, c.fileName,
                                               c.filePath, c.size)
                  /\ UNCHANGED faults
               \/ /\ c.existing = NoId
                  /\ HasRow(c.deviceId)
                  /\ FileAllowed("INSERT", c.user, row)
                  /\ deviceFiles' = deviceFiles \cup {row}
                  /\ UNCHANGED faults
               \/ /\ c.existing = NoId
                  /\ ~(HasRow(c.deviceId) /\ FileAllowed("INSERT", c.user, row))
                  /\ UNCHANGED <<deviceFiles, faults>>
               \/ /\ c.existing = NoId
                  /\ faults < MaxFaults
                  /\ faults' = faults + 1
                  /\ UNCHANGED deviceFiles
            /\ lastCall' = Returned([c EXCEPT !.wrote = TRUE], 200, TRUE)
            /\ calls' = [calls EXCEPT ![i] = NoCall]
            /\ UNCHANGED <<calcVars, pdfVars, devices, companyProfiles, storage, now, started>>

\* time passes
Tick ==
    /\ now < MaxNow
    /\ now' = now + 1
    /\ UNCHANGED <<calcVars, pdfVars, devices, companyProfiles, deviceFiles, storage, calls,
                   lastCall, started, faults>>

(***************************************************************************)
(* uploadDeviceFile.                                                       *)
(***************************************************************************)
MAX_FILE_SIZE == 10 * 1024 * 1024

ALLOWED_MIME_TYPES ==
    {"application/pdf", "image/png", "image/jpeg", "image/jpg", "image/webp", "text/plain"}

\* formData.get('file'): a File with its size, type and the extension of its
\* name, or null
File(size, type, extension) ==
    [present |-> TRUE, size |-> size, type |-> type, extension |-> extension]

NoFile == [present |-> FALSE, size |-> 0, type |-> "", extension |-> ""]

Files ==
    {NoFile, File(1024, "application/pdf", ".pdf"),
     File(MAX_FILE_SIZE + 1, "application/pdf", ".pdf"),
     File(1024, "application/zip", ".zip")}

\* formData.get('category'): no field, or any text
CategoryInputs ==
    {NULL, Str(<<"EIGENBELEG">>), Str(<<"INVOICE">>), Str(<<"SALES_AD">>), Str(<<"x">>)}

\* CATEGORY_FILENAME_MAP[category] || 'Dokument'
CategoryPrefix(category) ==
    CASE category = Str(<<"INVOICE">>) -> "Rechnung"
      [] category = Str(<<"PAYPAL">>) -> "Zahlungsbeleg"
      [] category = Str(<<"CHAT">>) -> "KleinanzeigenChat"
      [] category = Str(<<"EIGENBELEG">>) -> "Eigenbeleg"
      [] category = Str(<<"OTHER">>) -> "Dokument"
      [] OTHER -> "Dokument"

\* generateStructuredFilename(category, deviceId, file.name)
generateStructuredFilename(category, deviceId, file) ==
    FileName(CategoryPrefix(category), deviceId, Today(now), NoStamp, file.extension)

\* lines 196-236: the error that ends the call, or "" when it goes on
uploadChecks(user, deviceId, file) ==
    IF user = NoUser THEN "Not authenticated"
    ELSE IF ~VisibleDevice(user, deviceId) THEN "Device not found or access denied"
    ELSE IF ~file.present THEN "No file provided"
    ELSE IF file.size > MAX_FILE_SIZE THEN "File too large"
    ELSE IF file.type \notin ALLOWED_MIME_TYPES THEN "File type not allowed"
    ELSE ""

\* lines 195-243
UploadBegin(limit) ==
    /\ CanStart(limit)
    /\ started' = started + 1
    /\ \E user \in Users \cup {NoUser}, deviceId \in DeviceIds, file \in Files,
          given \in CategoryInputs :
          LET c == Call("uploadDeviceFile", started + 1, user, deviceId,
                        [file |-> file, category |-> given])
              category == JsOr(given, Str(<<"OTHER">>))
              structuredName == generateStructuredFilename(category, deviceId, file)
          IN  IF uploadChecks(user, deviceId, file) # ""
              THEN /\ lastCall' = Returned(c, 0, FALSE)
                   /\ UNCHANGED calls
              ELSE /\ calls' = [calls EXCEPT ![FreeSlot] =
                                   [c EXCEPT !.pc = "unique", !.category = category,
                                             !.size = file.size,
                                             !.fileName = structuredName,
                                             !.filePath =
                                                 FilePath(user, YearMonthOf(devices[deviceId]),
                                                          deviceId, structuredName)]]
                   /\ UNCHANGED lastCall
    /\ UNCHANGED <<calcVars, pdfVars, devices, companyProfiles, deviceFiles, storage, now,
                   faults>>

\* one test of the loop in getUniqueFilename: while the name is taken in the
\* folder, the name becomes the structured name with Date.now() + counter
UploadUnique ==
    \E i \in Active :
        LET c == calls[i]
            stamped == FileName(c.fileName[1], c.fileName[2], c.fileName[3],
                                now + c.counter, c.fileName[5])
        IN  /\ c.op = "uploadDeviceFile"
            /\ c.pc = "unique"
            /\ IF HasObject(storage, c.filePath)
               THEN calls' = [calls EXCEPT ![i].fileName = stamped,
                                           ![i].filePath[4] = stamped,
                                           ![i].counter = @ + 1]
               ELSE calls' = [calls EXCEPT ![i].pc = "store"]
            /\ UNCHANGED <<calcVars, pdfVars, devices, companyProfiles, deviceFiles, storage,
                           lastCall, now, started, faults>>

\* lines 256-271: the upload without upsert fails when the path is taken
UploadStore ==
    \E i \in Active :
        LET c == calls[i]
        IN  /\ c.op = "uploadDeviceFile"
            /\ c.pc = "store"
            /\ \/ /\ ~HasObject(storage, c.filePath)
                  /\ storage' = storage \cup {StoredObject(c.filePath, c.size, c.seq)}
                  /\ calls' = [calls EXCEPT ![i].pc = "insert", ![i].uploaded = TRUE]
                  /\ UNCHANGED <<lastCall, faults>>
               \/ /\ HasObject(storage, c.filePath)
                  /\ lastCall' = Returned(c, 0, FALSE)
                  /\ calls' = [calls EXCEPT ![i] = NoCall]
                  /\ UNCHANGED <<storage, faults>>
               \/ /\ faults < MaxFaults
                  /\ faults' = faults + 1
                  /\ lastCall' = Returned(c, 0, FALSE)
                  /\ calls' = [calls EXCEPT ![i] = NoCall]
                  /\ UNCHANGED storage
            /\ UNCHANGED <<calcVars, pdfVars, devices, companyProfiles, deviceFiles, now,
                           started>>

\* lines 274-304: the insert; when it fails the uploaded object is removed
UploadInsert ==
    \E i \in Active :
        LET c == calls[i]
            row == FileRow(c.seq, c.deviceId, c.user, c.fileName, c.filePath, c.size,
                           c.category)
        IN  /\ c.op = "uploadDeviceFile"
            /\ c.pc = "insert"
            /\ \/ /\ HasRow(c.deviceId)
                  /\ FileAllowed("INSERT", c.user, row)
                  /\ deviceFiles' = deviceFiles \cup {row}
                  /\ lastCall' = Returned([c EXCEPT !.wrote = TRUE], 0, TRUE)
                  /\ UNCHANGED <<storage, faults>>
               \/ /\ ~(HasRow(c.deviceId) /\ FileAllowed("INSERT", c.user, row))
                  /\ storage' = Remove(storage, c.filePath)
                  /\ lastCall' = Returned(c, 0, FALSE)
                  /\ UNCHANGED <<deviceFiles, faults>>
               \/ /\ faults < MaxFaults
                  /\ faults' = faults + 1
                  /\ storage' = Remove(storage, c.filePath)
                  /\ lastCall' = Returned(c, 0, FALSE)
                  /\ UNCHANGED deviceFiles
            /\ calls' = [calls EXCEPT ![i] = NoCall]
            /\ UNCHANGED <<calcVars, pdfVars, devices, companyProfiles, now, started>>

(***************************************************************************)
(* deleteDeviceFile and deleteDevice.                                      *)
(***************************************************************************)
\* the ids that rows of device_files can have
FileIds == 1..MaxCalls

\* .select('file_path, device_id').eq('id', fileId).eq('owner_user_id', user.id)
OwnFileRows(table, user, fileId) ==
    {r \in table : FileAllowed("SELECT", user, r) /\ r.id = fileId /\ r.owner_user_id = user}

\* .delete().eq('id', fileId).eq('owner_user_id', user.id) through the client
\* of the caller
DeleteFile(table, user, fileId) ==
    {r \in table : ~(FileAllowed("DELETE", user, r) /\ r.id = fileId /\ r.owner_user_id = user)}

\* lines 362-380: the caller and the row of the file
DeleteFileBegin(limit) ==
    /\ CanStart(limit)
    /\ started' = started + 1
    /\ \E user \in Users \cup {NoUser}, fileId \in FileIds :
          LET rows == OwnFileRows(deviceFiles, user, fileId)
              file == CHOOSE r \in rows : TRUE
              c == [Call("deleteDeviceFile", started + 1, user, "", fileId)
                       EXCEPT !.existing = fileId]
          IN  IF user = NoUser \/ Cardinality(rows) # 1
              THEN /\ lastCall' = Returned(c, 0, FALSE)
                   /\ UNCHANGED calls
              ELSE /\ calls' = [calls EXCEPT ![FreeSlot] =
                                   [c EXCEPT !.pc = "remove", !.deviceId = file.device_id,
                                             !.filePath = file.file_path]]
                   /\ UNCHANGED lastCall
    /\ UNCHANGED <<calcVars, pdfVars, devices, companyProfiles, deviceFiles, storage, now,
                   faults>>

\* lines 382-391: the object is removed; when that fails the call goes on
DeleteFileRemove ==
    \E i \in Active :
        /\ calls[i].op = "deleteDeviceFile"
        /\ calls[i].pc = "remove"
        /\ \/ /\ storage' = Remove(storage, calls[i].filePath)
              /\ UNCHANGED faults
           \/ /\ faults < MaxFaults
              /\ faults' = faults + 1
              /\ UNCHANGED storage
        /\ calls' = [calls EXCEPT ![i].pc = "delete"]
        /\ UNCHANGED <<calcVars, pdfVars, devices, companyProfiles, deviceFiles, lastCall, now,
                       started>>

\* lines 393-405: the row is deleted
DeleteFileDelete ==
    \E i \in Active :
        LET c == calls[i]
        IN  /\ c.op = "deleteDeviceFile"
            /\ c.pc = "delete"
            /\ \/ /\ deviceFiles' = DeleteFile(deviceFiles, c.user, c.existing)
                  /\ lastCall' = Returned([c EXCEPT !.wrote = TRUE], 0, TRUE)
                  /\ UNCHANGED faults
               \/ /\ faults < MaxFaults
                  /\ faults' = faults + 1
                  /\ lastCall' = Returned(c, 0, FALSE)
                  /\ UNCHANGED deviceFiles
            /\ calls' = [calls EXCEPT ![i] = NoCall]
            /\ UNCHANGED <<calcVars, pdfVars, devices, companyProfiles, storage, now, started>>

\* .delete().eq('id', id).eq('owner_user_id', user.id) on devices through the
\* client of the caller: the row goes when it is the caller's
DeleteDeviceRow(table, user, id) ==
    IF VisibleDevice(user, id) THEN [table EXCEPT ![id] = NoRow] ELSE table

\* device_id REFERENCES devices(id) ON DELETE CASCADE: the rows of device_files
\* that are left when the devices are those of table
Cascade(files, table) ==
    {r \in files : table[r.device_id].owner_user_id # NoRow.owner_user_id}

\* deleteDevice(id): a delete that matches no row is no error
DeleteDevice(limit) ==
    /\ CanStart(limit)
    /\ started' = started + 1
    /\ \E user \in Users \cup {NoUser}, id \in DeviceIds :
          LET c == Call("deleteDevice", started + 1, user, id, UNDEF)
          IN  \/ /\ user = NoUser
                 /\ lastCall' = Returned(c, 0, FALSE)
                 /\ UNCHANGED <<devices, deviceFiles, faults>>
              \/ /\ user # NoUser
                 /\ devices' = DeleteDeviceRow(devices, user, id)
                 /\ deviceFiles' = Cascade(deviceFiles, DeleteDeviceRow(devices, user, id))
                 /\ lastCall' = Returned([c EXCEPT !.wrote = TRUE], 0, TRUE)
                 /\ UNCHANGED faults
              \/ /\ user # NoUser
                 /\ faults < MaxFaults
                 /\ faults' = faults + 1
                 /\ lastCall' = Returned(c, 0, FALSE)
                 /\ UNCHANGED <<devices, deviceFiles>>
    /\ UNCHANGED <<calcVars, pdfVars, companyProfiles, storage, calls, now>>

(***************************************************************************)
(* Specifications of the file attachments.  Two users own one device each; *)
(* each of them has a company profile or not.                              *)
(***************************************************************************)
\* the profile that signUp leaves for a user
RegisteredProfile(user) == ProfileRow(user, Str(<<"A">>), Str(<<"o">>), NULL)

StockDevice(owner, ym) ==
    DeviceRow(owner, Str(<<"STOCK">>), toISOString(ym), Whole(5), Whole(0), Whole(0),
              Whole(0), NULL, Whole(0), NULL)

InitFiles ==
    /\ device = MakeDevice("STOCK", UNDEF, UNDEF, {}, <<>>)
    /\ result = NoResult
    /\ calcPc = "idle"
    /\ w = NewWriter
    /\ lastOp = "constructor"
    /\ steps = 0
    /\ profile = NoProfile
    /\ docPc = "idle"
    /\ lastArg = 0
    /\ logo = "none"
    /\ devices = [d \in DeviceIds |->
                     IF d = "d1" THEN StockDevice("u1", "2026-01")
                     ELSE StockDevice("u2", "2026-02")]
    /\ \E S \in SUBSET Users : companyProfiles = {RegisteredProfile(u) : u \in S}
    /\ deviceFiles = {}
    /\ storage = {}
    /\ calls = [i \in 1..MaxInFlight |-> NoCall]
    /\ lastCall = NoCall
    /\ now = 0
    /\ started = 0
    /\ faults = 0

\* generate-receipt requests, one after another
NextReceipts ==
    \/ ReceiptBegin(1)
    \/ ReceiptUpload
    \/ ReceiptSelect
    \/ ReceiptWrite
    \/ Tick

SpecReceipts == InitFiles /\ [][NextReceipts]_vars

\* generate-receipt requests and uploadDeviceFile calls, interleaved
NextFiles ==
    \/ ReceiptBegin(MaxInFlight)
    \/ ReceiptUpload
    \/ ReceiptSelect
    \/ ReceiptWrite
    \/ UploadBegin(MaxInFlight)
    \/ UploadUnique
    \/ UploadStore
    \/ UploadInsert
    \/ Tick

SpecFiles == InitFiles /\ [][NextFiles]_vars

\* uploadDeviceFile calls, interleaved
NextUploads ==
    \/ UploadBegin(MaxInFlight)
    \/ UploadUnique
    \/ UploadStore
    \/ UploadInsert
    \/ Tick

SpecUploads == InitFiles /\ [][NextUploads]_vars

\* uploads, receipts and deletions, one call after another
NextStore ==
    \/ ReceiptBegin(1)
    \/ ReceiptUpload
    \/ ReceiptSelect
    \/ ReceiptWrite
    \/ UploadBegin(1)
    \/ UploadUnique
    \/ UploadStore
    \/ UploadInsert
    \/ DeleteFileBegin(1)
    \/ DeleteFileRemove
    \/ DeleteFileDelete
    \/ DeleteDevice(1)
    \/ Tick

SpecStore == InitFiles /\ [][NextStore]_vars

(***************************************************************************)
(* Company profiles: signUp and upsertCompanyProfile on company_profiles.  *)
(* A column that a payload does not name is undefined in the payload.      *)
(***************************************************************************)
ProfileColumns == {"company_name", "owner_name", "vat_id"}

\* the row that an insert of the payload proposes: a column that is not named
\* gets its default, which is null
ProposedProfile(payload) ==
    [c \in DOMAIN payload |->
        IF c \in ProfileColumns /\ payload[c] = UNDEF THEN NULL ELSE payload[c]]

\* NOT NULL of company_name and owner_name, and user_id REFERENCES auth.users
ProfileConstraints(row) ==
    /\ row.company_name # NULL
    /\ row.owner_name # NULL
    /\ row.user_id \in Users

\* the policies of company_profiles: auth.uid() = user_id
ProfileAllowed(user, row) == row.user_id = user

UpsertProfile_IgnoreDuplicates(table, payload) ==
    IF \E p \in table : p.user_id = payload.user_id THEN table
    ELSE table \cup {ProposedProfile(payload)}

\* .upsert(payload, { onConflict: 'user_id' }): user_id is UNIQUE; the row of
\* the user takes the columns of the payload, or the proposed row is inserted
UpsertProfile(table, payload) ==
    IF \E p \in table : p.user_id = payload.user_id
    THEN {IF p.user_id = payload.user_id
          THEN [c \in DOMAIN p |->
                   IF c \in ProfileColumns /\ payload[c] = UNDEF THEN p[c] ELSE payload[c]]
          ELSE p : p \in table}
    ELSE table \cup {ProposedProfile(payload)}

\* profileData of upsertCompanyProfile
profileData(user, data) ==
    ProfileRow(user, data.companyName, data.ownerName, JsOr(data.vatId, NULL))

\* the row signUp asks for
signUpProfile(id, form) ==
    ProfileRow(id, JsOr(JsOr(form.companyName, Str(<<>>)), NULL),
               Str(form.firstName.s \o <<" ">> \o form.lastName.s), UNDEF)

\* signUpSchema: first and last name have at least one character
signUpSchema(form) == Len(form.firstName.s) >= 1 /\ Len(form.lastName.s) >= 1

\* the data of the settings form
ProfileForms ==
    {[companyName |-> n, ownerName |-> o, vatId |-> v] :
        n \in {UNDEF, Str(<<"A">>), Str(<<"B">>)},
        o \in {Str(<<"o">>)},
        v \in {UNDEF, Str(<<"v">>)}}

\* the data of the registration form
SignUpForms ==
    {[companyName |-> n, firstName |-> f, lastName |-> Str(<<"L">>)] :
        n \in {NULL, Str(<<"C">>)},
        f \in {Str(<<>>), Str(<<"F">>)}}

\* what supabase.auth.signUp answers: an error, the account (new, or one not
\* yet confirmed), or a user that auth.users does not have (the answer for
\* the e-mail address of a confirmed account)
SignUpAnswers == {"error", "fake"} \cup Users

\* lines 41-59
ProfileBegin(limit) ==
    /\ CanStart(limit)
    /\ started' = started + 1
    /\ \E user \in Users \cup {NoUser}, data \in ProfileForms :
          LET c == Call("upsertCompanyProfile", started + 1, user, "", data)
          IN  IF user = NoUser
              THEN /\ lastCall' = Returned(c, 0, FALSE)
                   /\ UNCHANGED calls
              ELSE /\ calls' = [calls EXCEPT ![FreeSlot] = [c EXCEPT !.pc = "upsert"]]
                   /\ UNCHANGED lastCall
    /\ UNCHANGED <<calcVars, pdfVars, devices, companyProfiles, deviceFiles, storage, now,
                   faults>>

\* lines 61-73: the statement and the answer
ProfileUpsert ==
    \E i \in Active :
        LET c == calls[i]
            payload == profileData(c.user, c.input)
        IN  /\ c.op = "upsertCompanyProfile"
            /\ c.pc = "upsert"
            /\ \/ /\ ProfileConstraints(ProposedProfile(payload))
                  /\ ProfileAllowed(c.user, payload)
                  /\ companyProfiles' = UpsertProfile(companyProfiles, payload)
                  /\ lastCall' = Returned([c EXCEPT !.wrote = TRUE], 0, TRUE)
                  /\ UNCHANGED faults
               \/ /\ ~(ProfileConstraints(ProposedProfile(payload))
                        /\ ProfileAllowed(c.user, payload))
                  /\ lastCall' = Returned(c, 0, FALSE)
                  /\ UNCHANGED <<companyProfiles, faults>>
               \/ /\ faults < MaxFaults
                  /\ faults' = faults + 1
                  /\ lastCall' = Returned(c, 0, FALSE)
                  /\ UNCHANGED companyProfiles
            /\ calls' = [calls EXCEPT ![i] = NoCall]
            /\ UNCHANGED <<calcVars, pdfVars, devices, deviceFiles, storage, now, started>>

\* lines 52-83 of signUp: the form, the schema and supabase.auth.signUp
SignUpBegin(limit) ==
    /\ CanStart(limit)
    /\ started' = started + 1
    /\ \E form \in SignUpForms, answer \in SignUpAnswers :
          LET c == Call("signUp", started + 1, answer, "", form)
          IN  IF ~signUpSchema(form) \/ answer = "error"
              THEN /\ lastCall' = Returned([c EXCEPT !.user = NoUser], 0, FALSE)
                   /\ UNCHANGED calls
              ELSE /\ calls' = [calls EXCEPT ![FreeSlot] = [c EXCEPT !.pc = "profile"]]
                   /\ UNCHANGED lastCall
    /\ UNCHANGED <<calcVars, pdfVars, devices, companyProfiles, deviceFiles, storage, now,
                   faults>>

\* lines 85-107 of signUp: the upsert through the service role client, whose
\* outcome is not looked at, and the redirect
SignUpProfile ==
    \E i \in Active :
        LET c == calls[i]
            payload == signUpProfile(c.user, c.input)
        IN  /\ c.op = "signUp"
            /\ c.pc = "profile"
            /\ \/ /\ ProfileConstraints(ProposedProfile(payload))
                  /\ companyProfiles' = UpsertProfile(companyProfiles, payload)
                  /\ lastCall' = Returned([c EXCEPT !.wrote = TRUE], 0, TRUE)
                  /\ UNCHANGED faults
               \/ /\ ~ProfileConstraints(ProposedProfile(payload))
                  /\ lastCall' = Returned(c, 0, TRUE)
                  /\ UNCHANGED <<companyProfiles, faults>>
               \/ /\ faults < MaxFaults
                  /\ faults' = faults + 1
                  /\ lastCall' = Returned(c, 0, TRUE)
                  /\ UNCHANGED companyProfiles
            /\ calls' = [calls EXCEPT ![i] = NoCall]
            /\ UNCHANGED <<calcVars, pdfVars, devices, deviceFiles, storage, now, started>>

\* registrations and saves of the settings, interleaved
NextProfiles ==
    \/ ProfileBegin(MaxInFlight)
    \/ ProfileUpsert
    \/ SignUpBegin(MaxInFlight)
    \/ SignUpProfile

SpecProfiles == InitFiles /\ [][NextProfiles]_vars

(***************************************************************************)
(* exportDevicesToExcel: the totals below the rows of the sheet.           *)
(***************************************************************************)
\* the six totals
Totals(purchase, repair, shipping, other, sale, tax) ==
    [totalPurchasePrice |-> purchase, totalRepairCost |-> repair,
     totalShippingCost |-> shipping, totalOtherCosts |-> other,
     totalSalePrice |-> sale, totalTax |-> tax]

\* lines 686-691
NoTotals == Totals(Whole(0), Whole(0), Whole(0), Whole(0), Whole(0), Whole(0))

Accumulates_AnyStatus(d) == JsGtZero(JsOr(d.sale_price, Whole(0)))

\* device.status === 'SOLD' && salePrice > 0
Accumulates(d) == d.status = "SOLD" /\ JsGtZero(JsOr(d.sale_price, Whole(0)))

\* lines 695-716: the callback of devices.map, as far as the totals go
accumulate(t, d) ==
    LET financials == calculateDeviceFinancials(d)
        purchasePrice == JsOr(d.purchase_price, Whole(0))
        repairCost == JsOr(d.repair_cost, Whole(0))
        shippingCost == JsAdd(JsOr(d.shipping_buy, Whole(0)), JsOr(d.shipping_sell, Whole(0)))
        otherCosts == JsOr(d.sales_fees, Whole(0))
        salePrice == JsOr(d.sale_price, Whole(0))
        tax == financials.vat
    IN  IF Accumulates(d)
        THEN Totals(JsAdd(t.totalPurchasePrice, purchasePrice),
                    JsAdd(t.totalRepairCost, repairCost),
                    JsAdd(t.totalShippingCost, shippingCost),
                    JsAdd(t.totalOtherCosts, otherCosts),
                    JsAdd(t.totalSalePrice, salePrice),
                    JsAdd(t.totalTax, tax))
        ELSE t

\* a row of devices as getDevices returns it
DbDevice(owner, status, flag, price, salePrice) ==
    [f \in DeviceFields \cup {"owner_user_id"} |->
        CASE f = "owner_user_id" -> owner
          [] f = "status" -> status
          [] f = "is_diff_tax" -> flag
          [] f = "purchase_price" -> price
          [] f = "sale_price" -> salePrice
          [] f \in {"repair_cost", "shipping_buy", "shipping_sell", "sales_fees"} -> Whole(1)
          [] OTHER -> UNDEF]

\* the rows a device id can have: none, or a row of either user
DbDevices ==
    {NoRow} \cup
    {DbDevice(owner, status, flag, price, salePrice) :
        owner \in Users, status \in {"SOLD", "STOCK"}, flag \in {JSTRUE, JSFALSE},
        price \in Amounts, salePrice \in Amounts \cup {NULL, Whole(0 - 1)}}

\* the orders in which a query can return the rows of ids
Orders(ids) ==
    {o \in [1..Cardinality(ids) -> ids] : \A i, j \in DOMAIN o : o[i] = o[j] => i = j}

\* the call: the rows still to be mapped and the totals so far
ExportCall(seq, user, pending, totals) ==
    [op |-> "exportDevicesToExcel", seq |-> seq, pc |-> "map", user |-> user,
     pending |-> pending, totals |-> totals, status |-> 0, success |-> FALSE]

InitExport ==
    /\ device = MakeDevice("STOCK", UNDEF, UNDEF, {}, <<>>)
    /\ result = NoResult
    /\ calcPc = "idle"
    /\ w = NewWriter
    /\ lastOp = "constructor"
    /\ steps = 0
    /\ profile = NoProfile
    /\ docPc = "idle"
    /\ lastArg = 0
    /\ logo = "none"
    /\ \E r1 \in DbDevices, r2 \in DbDevices :
          devices = [d \in DeviceIds |-> IF d = "d1" THEN r1 ELSE r2]
    /\ companyProfiles = {}
    /\ deviceFiles = {}
    /\ storage = {}
    /\ calls = [i \in 1..MaxInFlight |-> NoCall]
    /\ lastCall = NoCall
    /\ now = 0
    /\ started = 0
    /\ faults = 0

\* lines 677-691, with getDevices (lines 434-477)
ExportBegin ==
    /\ CanStart(1)
    /\ started' = started + 1
    /\ \E user \in Users \cup {NoUser} :
          LET own == {id \in DeviceIds : VisibleDevice(user, id)}
          IN  \E pending \in Orders(own) :
                 LET c == ExportCall(started + 1, user, pending, NoTotals)
                 IN  IF Len(pending) = 0
                     THEN /\ lastCall' = Returned(c, 0, FALSE)
                          /\ UNCHANGED calls
                     ELSE /\ calls' = [calls EXCEPT ![FreeSlot] = c]
                          /\ UNCHANGED lastCall
    /\ UNCHANGED <<calcVars, pdfVars, devices, companyProfiles, deviceFiles, storage, now,
                   faults>>

\* lines 694-737: one device
ExportRow ==
    \E i \in Active :
        LET c == calls[i]
        IN  /\ c.op = "exportDevicesToExcel"
            /\ c.pending # <<>>
            /\ calls' = [calls EXCEPT
                            ![i].pending = Tail(c.pending),
                            ![i].totals = accumulate(c.totals, devices[Head(c.pending)])]
            /\ UNCHANGED <<calcVars, pdfVars, devices, companyProfiles, deviceFiles, storage,
                           lastCall, now, started, faults>>

\* lines 739-800: the sheet with the totals is returned
ExportEnd ==
    \E i \in Active :
        LET c == calls[i]
        IN  /\ c.op = "exportDevicesToExcel"
            /\ c.pending = <<>>
            /\ lastCall' = Returned(c, 0, TRUE)
            /\ calls' = [calls EXCEPT ![i] = NoCall]
            /\ UNCHANGED <<calcVars, pdfVars, devices, companyProfiles, deviceFiles, storage,
                           now, started, faults>>

NextExport ==
    \/ ExportBegin
    \/ ExportRow
    \/ ExportEnd

SpecExport == InitExport /\ [][NextExport]_vars

(***************************************************************************)
(* The reading calls, and every server action and route together.          *)
(***************************************************************************)
\* a call that only reads, with the rows and objects it has got
Reading(op, seq, user, deviceId, read) == [read |-> read] @@ Call(op, seq, user, deviceId, UNDEF)

\* getDevices(filters) without filters: the rows of the caller, and [] (no
\* success) when nobody is signed in
GetDevices ==
    /\ CanStart(MaxInFlight)
    /\ started' = started + 1
    /\ \E user \in Users \cup {NoUser} :
          LET rows == {id \in DeviceIds : user # NoUser /\ VisibleDevice(user, id)}
              c == Reading("getDevices", started + 1, user, "",
                           [devices |-> rows, files |-> {}, objects |-> {}])
          IN  lastCall' = Returned(c, 0, user # NoUser)
    /\ UNCHANGED <<calcVars, pdfVars, devices, companyProfiles, deviceFiles, storage, calls,
                   now, faults>>

\* GET export: the device, its rows of device_files and their objects
ExportZip ==
    /\ CanStart(MaxInFlight)
    /\ started' = started + 1
    /\ \E user \in Users \cup {NoUser}, deviceId \in DeviceIds :
          LET files == {r \in deviceFiles : /\ FileAllowed("SELECT", user, r)
                                            /\ r.device_id = deviceId
                                            /\ r.owner_user_id = user}
              objects == {o \in storage : \E r \in files : r.file_path = o.path}
              c == Reading("exportZip", started + 1, user, deviceId,
                           [devices |-> {deviceId}, files |-> files, objects |-> objects])
              nothing == Reading("exportZip", started + 1, user, deviceId,
                                 [devices |-> {}, files |-> {}, objects |-> {}])
          IN  IF user = NoUser THEN lastCall' = Returned(nothing, 401, FALSE)
              ELSE IF ~VisibleDevice(user, deviceId)
              THEN lastCall' = Returned(nothing, 404, FALSE)
              ELSE lastCall' = Returned(c, 200, TRUE)
    /\ UNCHANGED <<calcVars, pdfVars, devices, companyProfiles, deviceFiles, storage, calls,
                   now, faults>>

\* the forms that fill in no field but the status and the day of purchase
DatedForms == {form \in Forms : \A f \in OtherFields \ {"purchaseDate"} : form[f] = UNDEF}

\* every server action and route of the model, one call after another but for
\* createDevice and updateDevice, which also run while a call is in flight
NextApp ==
    \/ CreateDeviceWith(DatedForms)
    \/ UpdateDeviceWith(DatedForms)
    \/ DeleteDevice(1)
    \/ GetDevices
    \/ ExportZip
    \/ ReceiptBegin(1)
    \/ ReceiptUpload
    \/ ReceiptSelect
    \/ ReceiptWrite
    \/ UploadBegin(1)
    \/ UploadUnique
    \/ UploadStore
    \/ UploadInsert
    \/ DeleteFileBegin(1)
    \/ DeleteFileRemove
    \/ DeleteFileDelete
    \/ ProfileBegin(1)
    \/ ProfileUpsert
    \/ SignUpBegin(1)
    \/ SignUpProfile
    \/ Tick

SpecApp == InitFiles /\ [][NextApp]_vars

(***************************************************************************)
(* Properties of calculateDeviceFinancials.                                *)
(***************************************************************************)
\* a monetary field that holds a number or is absent
NumOrAbsent(v) == v.t \in {"num", "undefined"}

\* a record in which every monetary quantity is a number in at most one of
\* the two namings and absent in the other
WellTyped(d) ==
    /\ \A f \in MoneyFields : NumOrAbsent(d[f])
    /\ ~(d.purchasePrice.t = "num" /\ d.purchase_price.t = "num")
    /\ ~(d.repairCost.t = "num" /\ d.repair_cost.t = "num")
    /\ ~(d.shippingBuy.t = "num" /\ d.shipping_buy.t = "num")
    /\ ~(d.shippingSell.t = "num" /\ d.shipping_sell.t = "num")
    /\ ~(d.salesFees.t = "num" /\ d.sales_fees.t = "num")
    /\ ~(d.salePrice.t = "num" /\ d.sale_price.t = "num")

\* the whole amount a well-typed record states for a quantity, 0 when absent
Amount(d, camel, snake) ==
    IF d[camel].t = "num" THEN d[camel].q \div Scale
    ELSE IF d[snake].t = "num" THEN d[snake].q \div Scale
    ELSE 0

AbsentBoth(d, camel, snake) == d[camel] = UNDEF /\ d[snake] = UNDEF

\* the taxation regime a record states
TaxFlag(d) ==
    CASE d.isDiffTax = JSTRUE /\ d.is_diff_tax \in {UNDEF, NULL, JSTRUE} -> "differential"
      [] d.isDiffTax \in {UNDEF, NULL} /\ d.is_diff_tax = JSTRUE -> "differential"
      [] d.isDiffTax = JSFALSE /\ d.is_diff_tax \in {UNDEF, NULL, JSFALSE} -> "standard"
      [] d.isDiffTax \in {UNDEF, NULL} /\ d.is_diff_tax = JSFALSE -> "standard"
      [] d.isDiffTax = UNDEF /\ d.is_diff_tax = UNDEF -> "absent"
      [] OTHER -> "other"

Margin(d) == Amount(d, "salePrice", "sale_price") - Amount(d, "purchasePrice", "purchase_price")

\* margin * 19/119 as a number of the model (q counts 1/119ths)
VatOn(amount) == Num(amount * 19)

\* C1: a SOLD device under differential taxation has vat = taxableMargin * 19/119
\* when taxableMargin = salePrice - purchasePrice is positive, and vat = 0 when
\* the margin is zero or negative.
C1_DifferentialVat ==
    (calcPc = "done" /\ device.status = "SOLD" /\ WellTyped(device)
        /\ TaxFlag(device) = "differential")
    => /\ result.taxableMargin = Whole(Margin(device))
       /\ Margin(device) > 0 => result.vat = VatOn(Margin(device))
       /\ Margin(device) <= 0 => result.vat = Whole(0)

C1_Witness ==
    /\ calcPc = "done" /\ device.status = "SOLD" /\ WellTyped(device)
    /\ TaxFlag(device) = "differential"
    /\ Margin(device) < 0
    /\ result.vat = Whole(0)

\* C2: a SOLD device under standard taxation has vat = salePrice * 19/119 for
\* every purchase price (positive, zero or negative margin).
C2_StandardVat ==
    (calcPc = "done" /\ device.status = "SOLD" /\ WellTyped(device)
        /\ TaxFlag(device) = "standard")
    => result.vat = VatOn(Amount(device, "salePrice", "sale_price"))

C2_Witness ==
    /\ calcPc = "done" /\ device.status = "SOLD" /\ WellTyped(device)
    /\ TaxFlag(device) = "standard"
    /\ Margin(device) < 0
    /\ result.vat = VatOn(Amount(device, "salePrice", "sale_price"))
    /\ result.vat # Whole(0)

\* C3: a device whose status is not SOLD gets vat = 0 and isFinal = false,
\* whatever its other fields; isFinal is true exactly when status is SOLD.
C3_UnsoldNoVat ==
    calcPc = "done"
    => /\ result.isFinal <=> device.status = "SOLD"
       /\ device.status # "SOLD" => (result.vat = Whole(0) /\ result.isFinal = FALSE)

C3_Witness ==
    /\ calcPc = "done" /\ device.status = "REPAIR"
    /\ device.isDiffTax = JSFALSE
    /\ Amount(device, "salePrice", "sale_price") > 0
    /\ result.vat = Whole(0) /\ result.isFinal = FALSE

\* C4: totalCosts = purchase price + repair cost + inbound shipping +
\* outbound shipping + sales fees.
C4_TotalCosts ==
    (calcPc = "done" /\ WellTyped(device))
    => result.totalCosts =
          Whole(Amount(device, "purchasePrice", "purchase_price")
                + Amount(device, "repairCost", "repair_cost")
                + Amount(device, "shippingBuy", "shipping_buy")
                + Amount(device, "shippingSell", "shipping_sell")
                + Amount(device, "salesFees", "sales_fees"))

C4_Witness ==
    /\ calcPc = "done" /\ WellTyped(device)
    /\ Amount(device, "purchasePrice", "purchase_price") = 2
    /\ Amount(device, "repairCost", "repair_cost") = 1
    /\ Amount(device, "shippingBuy", "shipping_buy") = 1
    /\ Amount(device, "shippingSell", "shipping_sell") = 2
    /\ Amount(device, "salesFees", "sales_fees") = 1
    /\ result.totalCosts = Whole(7)

\* C5: actualProfit = salePrice - totalCosts, netProfit = actualProfit - vat,
\* and grossProfit equals actualProfit.
C5_Profits ==
    (calcPc = "done" /\ WellTyped(device))
    => /\ result.totalCosts.t = "num" /\ result.vat.t = "num"
       /\ result.actualProfit =
             Num(Amount(device, "salePrice", "sale_price") * Scale - result.totalCosts.q)
       /\ result.netProfit = Num(result.actualProfit.q - result.vat.q)
       /\ result.grossProfit = result.actualProfit

C5_Witness ==
    /\ calcPc = "done" /\ WellTyped(device)
    /\ device.status = "SOLD"
    /\ result.vat.q > 0
    /\ result.totalCosts.q > 0
    /\ result.netProfit = Num(result.actualProfit.q - result.vat.q)
    /\ result.netProfit # result.actualProfit

\* C6: a monetary field that is missing in both namings counts as zero, and a
\* taxation flag that is absent in both namings selects the differential rule.
C6_MissingAsZero ==
    (calcPc = "done" /\ WellTyped(device))
    => /\ AbsentBoth(device, "purchasePrice", "purchase_price")
            => result.taxableMargin = Whole(Amount(device, "salePrice", "sale_price"))
       /\ AbsentBoth(device, "salePrice", "sale_price")
            => result.taxableMargin = Whole(0 - Amount(device, "purchasePrice", "purchase_price"))
       /\ (\A f \in MoneyFields \ {"salePrice", "sale_price"} : device[f] = UNDEF)
            => result.totalCosts = Whole(0)
       /\ (\A f \in MoneyFields : device[f] = UNDEF)
            => (result.actualProfit = Whole(0) /\ result.netProfit = Whole(0))
       /\ (device.status = "SOLD" /\ TaxFlag(device) = "absent")
            => result.vat = IF Margin(device) > 0 THEN VatOn(Margin(device)) ELSE Whole(0)

C6_Witness ==
    /\ calcPc = "done" /\ device.status = "SOLD"
    /\ TaxFlag(device) = "absent"
    /\ \A f \in MoneyFields \ {"sale_price"} : device[f] = UNDEF
    /\ device.sale_price = Whole(5)
    /\ result.totalCosts = Whole(0)
    /\ result.vat = VatOn(5)

\* the record with every absent or invalid monetary input replaced by zero
Sanitized(d) ==
    [f \in DeviceFields |->
        IF f \in MoneyFields /\ d[f].t # "num" THEN Whole(0) ELSE d[f]]

\* C7: for any device record, including monetary fields that are absent,
\* null, NaN or text, every result is computed as if each absent or invalid
\* monetary input were zero (and so every result is a number).
C7_InvalidAsZero ==
    calcPc = "done"
    => /\ result = calculateDeviceFinancials(Sanitized(device))
       /\ \A k \in {"totalCosts", "taxableMargin", "actualProfit", "grossProfit", "vat", "netProfit"} :
             result[k].t = "num"

(***************************************************************************)
(* Properties of the layout engine.                                        *)
(***************************************************************************)
\* C9: in labelValue and labelBlock the label and the first value line are
\* drawn on the same page at the same height, whatever the cursor position
\* at entry and the number of lines.
C9_LabelWithFirstLine ==
    (lastOp \in {"labelValue", "labelBlock"} /\ w.firstAt # NoPos)
    => (w.labelAt # NoPos /\ w.labelAt = w.firstAt)

\* a value whose continuation line moved to the next page, label and first
\* line staying together on the page before
C9_Witness ==
    /\ lastOp = "labelValue"
    /\ w.pages = 2
    /\ w.labelAt[1] = 1
    /\ w.firstAt = w.labelAt

\* C10 as stated: whatever the company profile, every page of the finished
\* document carries exactly one footer.
C10_FooterOncePerPage ==
    docPc = "done" => \A p \in 1..w.pages : w.footers[p] = 1

\* C10 amended: when the footer text (email, phone) is not empty every page
\* of the finished document carries exactly one footer; when it is empty no
\* page carries one.  While the document is assembled every flushed page
\* carries that number already and the current page carries none.
C10_FooterOncePerPageIfText ==
    LET n == IF Truthy(w.footerText) THEN 1 ELSE 0
    IN  /\ docPc = "done" => \A p \in 1..w.pages : w.footers[p] = n
        /\ docPc \notin {"done", "idle", "setFooter"} =>
              /\ \A p \in 1..(w.pages - 1) : w.footers[p] = n
              /\ w.footers[w.pages] = 0

C10_Witness ==
    /\ docPc = "done"
    /\ w.pages >= 3
    /\ Truthy(w.footerText)
    /\ \A p \in 1..w.pages : w.footers[p] = 1

\* C11 as stated: ensureSpace(needed) with y + needed > 270 draws the footer
\* on the current page, adds exactly one page and resets y to 25; with
\* y + needed <= 270 it changes neither the page count nor y and draws
\* nothing.
C11_EnsureSpace ==
    [][lastOp' = "ensureSpace" =>
         IF w.y + lastArg' > PAGE_BOTTOM
         THEN /\ w'.footers[w.pages] = w.footers[w.pages] + 1
              /\ w'.pages = w.pages + 1
              /\ w'.y = TOP
         ELSE /\ w'.pages = w.pages
              /\ w'.y = w.y
              /\ w'.footers = w.footers
              /\ w'.outside = w.outside]_vars

\* C11 amended: as stated, except that the footer is drawn on the current
\* page only when the footer text is not empty; the footers of the earlier
\* pages stay as they are and the new page starts without one.
C11_EnsureSpaceIfText ==
    [][lastOp' = "ensureSpace" =>
         IF w.y + lastArg' > PAGE_BOTTOM
         THEN /\ w'.footers[w.pages] =
                     w.footers[w.pages] + (IF Truthy(w.footerText) THEN 1 ELSE 0)
              /\ \A p \in 1..(w.pages - 1) : w'.footers[p] = w.footers[p]
              /\ w'.pages = w.pages + 1
              /\ w'.footers[w'.pages] = 0
              /\ w'.y = TOP
              /\ w'.outside = w.outside
         ELSE /\ w'.pages = w.pages
              /\ w'.y = w.y
              /\ w'.footers = w.footers
              /\ w'.outside = w.outside]_vars

\* ensureSpace has flushed the first page with its footer
C11_Witness ==
    /\ lastOp = "ensureSpace"
    /\ w.pages = 2
    /\ w.y = TOP
    /\ w.footers = <<1, 0>>

C13_DrawnInsideContentArea ==
    /\ ~w.outside
    /\ docPc # "failed"

\* a finished document whose long values spread over several pages
C13_Witness ==
    /\ docPc = "done"
    /\ w.pages >= 4
    /\ ~w.outside

\* C14: whatever becomes of the logo (not fetched, not added, added, none
\* configured) generateEigenbeleg goes on with the title, and the writer is
\* as it was before, so the layout that follows is that of a document
\* without a logo.
C14_LogoFailureKeepsLayout ==
    [][docPc = "logo" => (docPc' = "title" /\ w' = w)]_vars

\* a document finished after its logo could not be added to the page
C14_Witness ==
    /\ docPc = "done"
    /\ logo \in {"fetchFailed", "addImageFailed"}

(***************************************************************************)
(* Properties of the generate-receipt route and of the file attachments.   *)
(***************************************************************************)
\* the generate-receipt requests in flight and the one that returned last
Receipts ==
    {c \in {calls[i] : i \in Active} \cup {lastCall} : c.op = "generateReceipt"}

OnlySpaces(s) == \A k \in 1..Len(s) : s[k] = " "

\* a value of the body that is missing, empty or white space only
Blank(v) == v \in {UNDEF, NULL} \/ (v.t = "str" /\ OnlySpaces(v.s))

\* shown is text without the white space around it
Trimmed(text, shown) ==
    \E a \in 1..Len(text), b \in 1..Len(text) :
        /\ shown = SubSeq(text, a, b)
        /\ text[a] # " "
        /\ text[b] # " "
        /\ OnlySpaces(SubSeq(text, 1, a - 1))
        /\ OnlySpaces(SubSeq(text, b + 1, Len(text)))

\* C15: when the reason of the request is missing, empty or white space only
\* the document shows the default reason text as 'Grund für Eigenbeleg';
\* otherwise it shows the reason supplied (without the white space around
\* it).
C15_ReasonOrDefault ==
    \A c \in Receipts :
        c.invoked =>
            IF Blank(ParsedBody(c.input).reason)
            THEN c.grund = DefaultReason
            ELSE /\ c.grund.t = "str"
                 /\ Trimmed(ParsedBody(c.input).reason.s, c.grund.s)

\* a receipt generated for a reason of white space only
C15_Witness ==
    /\ lastCall.op = "generateReceipt"
    /\ lastCall.success
    /\ lastCall.input.reason = Str(<<" ", " ">>)
    /\ lastCall.grund = DefaultReason

\* the device_files rows of category EIGENBELEG of a device
ReceiptRecords(deviceId) ==
    {r \in deviceFiles : r.device_id = deviceId /\ r.category = Str(<<"EIGENBELEG">>)}

\* C16: after generate-receipt requests run one after another, none of them
\* hit by a failure of the storage or the database, the device of the last
\* successful request has exactly one EIGENBELEG record, and that record has
\* the file name, path and size of that last generation.
C16_OneRecordOfLatest ==
    (lastCall.op = "generateReceipt" /\ lastCall.success /\ Active = {} /\ faults = 0)
    => /\ Cardinality(ReceiptRecords(lastCall.deviceId)) = 1
       /\ \A r \in ReceiptRecords(lastCall.deviceId) :
             /\ r.file_name = lastCall.fileName
             /\ r.file_path = lastCall.filePath
             /\ r.file_size = lastCall.size

\* C17: whatever the interleaving of generate-receipt requests and
\* uploadDeviceFile calls, no device has more than one EIGENBELEG record.
C17_AtMostOneRecord ==
    \A d \in DeviceIds : Cardinality(ReceiptRecords(d)) <= 1

\* the counterparty name of the request is missing, empty or white space
NameMissing(c) ==
    c.input.kind # "object" \/ Blank(c.input.recipientName)

C19_SoldHasSale ==
    \A id \in DeviceIds :
        (HasRow(id) /\ devices[id].status = Str(<<"SOLD">>))
        => (devices[id].sale_price # NULL /\ devices[id].sale_date # NULL)

\* C20: after any sequence of createDevice and updateDevice calls every
\* stored monetary column of every device that is not null is a number that
\* is not negative.
C20_MoneyNonNegative ==
    \A id \in DeviceIds :
        HasRow(id) =>
            \A c \in MoneyColumns :
                devices[id][c] # NULL => (devices[id][c].t = "num" /\ devices[id][c].q >= 0)

(***************************************************************************)
(* Properties of deletion, of the categories and of the agreement between  *)
(* the bucket and device_files.                                            *)
(***************************************************************************)
\* C21: when deleteDevice has returned success for a device, the device has
\* no row in devices and no row of device_files references it.
C21_DeletedWithFiles ==
    (lastCall.op = "deleteDevice" /\ lastCall.success)
    => /\ ~HasRow(lastCall.deviceId)
       /\ \A r \in deviceFiles : r.device_id # lastCall.deviceId

\* the category tags
Categories ==
    {Str(<<c>>) : c \in {"PAYPAL", "INVOICE", "CHAT", "EIGENBELEG", "SALES_AD", "OTHER"}}

\* C22: every row of device_files, whatever form data uploadDeviceFile and
\* generate-receipt were given, has a category that is one of PAYPAL,
\* INVOICE, CHAT, EIGENBELEG, SALES_AD and OTHER.
C22_CategoryKnown ==
    \A r \in deviceFiles : r.category \in Categories

\* the rows of company_profiles of an account
ProfilesOf(user) == {p \in companyProfiles : p.user_id = user}

\* the payload of the save that returned last
SavedLast ==
    IF lastCall.op = "signUp" THEN signUpProfile(lastCall.user, lastCall.input)
    ELSE profileData(lastCall.user, lastCall.input)

\* C23: whatever the interleaving of signUp and upsertCompanyProfile calls, no
\* account has more than one company profile, and when a call has saved a
\* profile the one profile of its account holds the data of that call.
C23_OneProfileLatest ==
    /\ \A u \in Users \cup {"fake", NoUser} : Cardinality(ProfilesOf(u)) <= 1
    /\ (lastCall.op \in {"signUp", "upsertCompanyProfile"} /\ lastCall.wrote)
       => /\ Cardinality(ProfilesOf(lastCall.user)) = 1
          /\ \A p \in ProfilesOf(lastCall.user) :
                \A c \in ProfileColumns : SavedLast[c] # UNDEF => p[c] = SavedLast[c]

\* an account that had a profile has saved its settings and signUp has then
\* written the profile of the same account again
C23_Witness ==
    /\ lastCall.op = "signUp"
    /\ lastCall.wrote
    /\ lastCall.seq = 2
    /\ \E p \in ProfilesOf(lastCall.user) :
          /\ p.company_name = Str(<<"C">>)
          /\ p.vat_id = Str(<<"v">>)

(***************************************************************************)
(* Properties of exportDevicesToExcel.                                     *)
(***************************************************************************)
\* the export in flight or the one that returned last
Exports ==
    {c \in {calls[i] : i \in Active} \cup {lastCall} : c.op = "exportDevicesToExcel"}

\* the devices of the call that the loop has gone through
Mapped(c) ==
    {id \in DeviceIds : VisibleDevice(c.user, id)} \ {c.pending[i] : i \in DOMAIN c.pending}

\* the devices that count: sold, at a sale price above zero
Counted(ids) ==
    {id \in ids : /\ devices[id].status = "SOLD"
                  /\ devices[id].sale_price.t = "num"
                  /\ devices[id].sale_price.q > 0}

\* the sum of amount[id] over ids, in units of 1 / Scale
RECURSIVE SumOf(_, _)
SumOf(ids, amount) ==
    IF ids = {} THEN 0
    ELSE LET id == CHOOSE x \in ids : TRUE
         IN  amount[id] + SumOf(ids \ {id}, amount)

\* the number in a column of the row of id, nothing for null
Column(id, name) == IF devices[id][name].t = "num" THEN devices[id][name].q ELSE 0

\* C24: at every point of exportDevicesToExcel each total is the sum, over
\* the devices gone through so far whose status is SOLD and whose sale price
\* is above zero, of the device's purchase price, repair cost, shipping
\* costs, sales fees, sale price and VAT; every other device adds nothing.
C24_TotalsOverSold ==
    \A c \in Exports :
        LET ids == Counted(Mapped(c))
            sum(name) == Num(SumOf(ids, [id \in DeviceIds |-> Column(id, name)]))
        IN  /\ c.totals.totalPurchasePrice = sum("purchase_price")
            /\ c.totals.totalRepairCost = sum("repair_cost")
            /\ c.totals.totalShippingCost =
                  Num(SumOf(ids, [id \in DeviceIds |->
                                     Column(id, "shipping_buy") + Column(id, "shipping_sell")]))
            /\ c.totals.totalOtherCosts = sum("sales_fees")
            /\ c.totals.totalSalePrice = sum("sale_price")
            /\ c.totals.totalTax =
                  Num(SumOf(ids, [id \in DeviceIds |->
                                     calculateDeviceFinancials(devices[id]).vat.q]))

\* an export over a sold device that counts and a device in stock that has
\* a sale price and does not count
C24_Witness ==
    /\ lastCall.op = "exportDevicesToExcel"
    /\ lastCall.success
    /\ Cardinality(Mapped(lastCall)) = 2
    /\ Cardinality(Counted(Mapped(lastCall))) = 1
    /\ \E id \in Mapped(lastCall) :
          devices[id].status = "STOCK" /\ devices[id].sale_price = Whole(2)
    /\ lastCall.totals.totalSalePrice = Whole(1)
    /\ lastCall.totals.totalTax # Whole(0)

(***************************************************************************)
(* Properties of the bucket and device_files together.                     *)
(***************************************************************************)
\* C25: whenever every call of uploadDeviceFile, deleteDeviceFile,
\* deleteDevice and generate-receipt made so far has returned, each object of
\* the bucket is named by the file_path of a row of device_files and the
\* file_path of each row names an object of the bucket.
C25_StorageAgrees ==
    Active = {} =>
        /\ \A o \in storage : \E r \in deviceFiles : r.file_path = o.path
        /\ \A r \in deviceFiles : HasObject(storage, r.file_path)

\* C26: when generate-receipt has answered success, device_files has a row
\* of category EIGENBELEG for the device whose file_path is the filePath of
\* the answer; and a request whose upload fails answers with an error and
\* leaves device_files as it was.
C26_SuccessMeansRecorded ==
    /\ []((lastCall.op = "generateReceipt" /\ lastCall.success)
          => \E r \in ReceiptRecords(lastCall.deviceId) : r.file_path = lastCall.filePath)
    /\ [][(/\ lastCall' # lastCall
           /\ lastCall'.op = "generateReceipt"
           /\ lastCall'.invoked
           /\ ~lastCall'.uploaded)
          => (~lastCall'.success /\ lastCall'.status = 500 /\ deviceFiles' = deviceFiles)]_vars

(***************************************************************************)
(* Properties of uploadDeviceFile.                                         *)
(***************************************************************************)
\* the call is turned down: nobody is signed in, the device is not one of
\* the caller's, there is no file, the file has more than 10 MB, or its type
\* is not one of the six allowed
TurnedDown(c) ==
    \/ c.user = NoUser
    \/ ~VisibleDevice(c.user, c.deviceId)
    \/ ~c.input.file.present
    \/ c.input.file.size > 10 * 1024 * 1024
    \/ c.input.file.type \notin {"application/pdf", "image/png", "image/jpeg", "image/jpg",
                                 "image/webp", "text/plain"}

C28_NeverOverwritten ==
    (lastCall.op = "uploadDeviceFile" /\ lastCall.success)
    => \A o \in storage : o.path = lastCall.filePath => o.by = lastCall.seq

(***************************************************************************)
(* The two taxation regimes compared.                                      *)
(***************************************************************************)
\* the same record under standard taxation
UnderStandard(d) == [d EXCEPT !.isDiffTax = JSFALSE]

\* C30: for a SOLD device whose purchase price and sale price are not
\* negative, the VAT under differential taxation is a number that is not
\* negative and not above the VAT that the same amounts give under standard
\* taxation.
C30_DifferentialAtMostStandard ==
    (/\ calcPc = "done"
     /\ device.status = "SOLD"
     /\ WellTyped(device)
     /\ TaxFlag(device) \in {"differential", "absent"}
     /\ Amount(device, "purchasePrice", "purchase_price") >= 0
     /\ Amount(device, "salePrice", "sale_price") >= 0)
    => /\ result.vat.t = "num"
       /\ result.vat.q >= 0
       /\ calculateDeviceFinancials(UnderStandard(device)).vat.t = "num"
       /\ result.vat.q <= calculateDeviceFinancials(UnderStandard(device)).vat.q

\* a sale above the purchase price: the VAT on the margin is above zero and
\* below the VAT on the sale price
C30_Witness ==
    /\ calcPc = "done"
    /\ device.status = "SOLD"
    /\ WellTyped(device)
    /\ TaxFlag(device) = "differential"
    /\ Amount(device, "purchasePrice", "purchase_price") = 1
    /\ Amount(device, "salePrice", "sale_price") = 2
    /\ result.vat = VatOn(1)
    /\ calculateDeviceFinancials(UnderStandard(device)).vat = VatOn(2)

(***************************************************************************)
(* Ownership.                                                              *)
(***************************************************************************)
\* the devices, rows of device_files, company profile and objects of a user
DataOf(u) ==
    [devices |-> [id \in DeviceIds |->
                     IF devices[id].owner_user_id = u THEN devices[id] ELSE NoRow],
     files |-> {r \in deviceFiles : r.owner_user_id = u},
     profiles |-> {p \in companyProfiles : p.user_id = u},
     objects |-> {o \in storage : o.path[1] = u}]

\* what the calls in flight and the call that returned last hold of the
\* tables and the bucket is the caller's own
ReadsOwn ==
    /\ \A i \in Active :
          LET c == calls[i]
          IN  c.op \in {"generateReceipt", "uploadDeviceFile", "deleteDeviceFile"}
              => /\ c.user \in Users
                 /\ c.filePath[1] = c.user
                 /\ \A r \in deviceFiles :
                       (c.existing # NoId /\ r.id = c.existing) => r.owner_user_id = c.user
    /\ lastCall.op \in {"getDevices", "exportZip"}
       => /\ \A id \in lastCall.read.devices : devices[id].owner_user_id = lastCall.user
          /\ \A r \in lastCall.read.files : r.owner_user_id = lastCall.user
          /\ \A o \in lastCall.read.objects : o.path[1] = lastCall.user
          /\ lastCall.user = NoUser
             => (~lastCall.success /\ lastCall.read.devices = {} /\ lastCall.read.files = {})

\* a call has returned in this step
Returns ==
    \/ started' # started /\ calls' = calls
    \/ \E i \in Active : calls'[i] = NoCall

\* the call that takes this step; a step of the clock is nobody's
Stepping ==
    IF \E i \in DOMAIN calls : calls'[i] # calls[i]
    THEN LET i == CHOOSE j \in DOMAIN calls : calls'[j] # calls[j]
         IN  IF calls'[i] = NoCall THEN calls[i] ELSE calls'[i]
    ELSE IF started' # started THEN lastCall'
    ELSE NoCall

\* a step changes the devices, rows of device_files, company profile and
\* objects of the signed-in caller only, and none when nobody is signed in;
\* a call with nobody signed in does not return success.  signUp runs for
\* nobody when it counts as a call like the others, and else for the account
\* that supabase.auth.signUp answered, of which it touches the profile only.
OwnStep(signUpAsOthers) ==
    LET c == Stepping
        actor == IF c = NoCall \/ (c.op = "signUp" /\ signUpAsOthers) THEN NoUser ELSE c.user
    IN  /\ \A u \in Users \cup {"fake", NoUser, NoRow.owner_user_id} :
              u # actor => DataOf(u)' = DataOf(u)
        /\ actor = NoUser
           => /\ UNCHANGED <<devices, companyProfiles, deviceFiles, storage>>
              /\ Returns => ~lastCall'.success
        /\ (c # NoCall /\ c.op = "signUp") => UNCHANGED <<devices, deviceFiles, storage>>

====
